---- MODULE Spec2Model ----
(***************************************************************************)
(* taskguard security engine: the pattern catalog (security/patterns.py),  *)
(* the validator with its line scanner and syntax-tree analyzer            *)
(* (security/validator.py) and the directory scanner (security/scanner.py).*)
(*                                                                         *)
(* Source text is modelled as TLA+ strings; a character is a string of     *)
(* length one, and the matchers work on characters as the regular          *)
(* expressions of the catalog do.                                          *)
(***************************************************************************)
EXTENDS Integers, Sequences, FiniteSets, TLC

(***************************************************************************)
(* Python values                                                           *)
(***************************************************************************)
\* None, in an integer field (line, column) and in a string field
NoneInt == -1
NoneStr == "<None>"

\* str[i] for 1 <= i <= len, "" outside (never equal to a character)
Char(s, i) == IF i >= 1 /\ i <= Len(s) THEN SubSeq(s, i, i) ELSE ""

\* s[i:].startswith(w), positions from 1
StartsAt(s, i, w) ==
    /\ i >= 1
    /\ i + Len(w) - 1 <= Len(s)
    /\ SubSeq(s, i, i + Len(w) - 1) = w

\* w in s
Contains(s, w) == \E i \in 1..(Len(s) - Len(w) + 1) : StartsAt(s, i, w)

\* the regular expression classes \s and \w (ASCII) and the quote class ["\']
WhiteSpace == {" ", "\t", "\r", "\f"}
LowerLetters == {"a","b","c","d","e","f","g","h","i","j","k","l","m",
                 "n","o","p","q","r","s","t","u","v","w","x","y","z"}
UpperLetters == {"A","B","C","D","E","F","G","H","I","J","K","L","M",
                 "N","O","P","Q","R","S","T","U","V","W","X","Y","Z"}
Digits == {"0","1","2","3","4","5","6","7","8","9"}
WordChars == LowerLetters \cup UpperLetters \cup Digits \cup {"_"}
Quotes == {"\"", "'"}

\* the first position >= i of s that holds no character of class, Len(s)+1
\* when there is none: where a greedy class* started at i stops
RECURSIVE SkipClass(_, _, _)
SkipClass(s, i, class) ==
    IF i <= Len(s) /\ Char(s, i) \in class THEN SkipClass(s, i + 1, class) ELSE i

SkipWs(s, i) == SkipClass(s, i, WhiteSpace)

\* str.strip()
RECURSIVE RStripEnd(_, _)
RStripEnd(s, j) ==
    IF j >= 1 /\ Char(s, j) \in WhiteSpace \cup {"\n"} THEN RStripEnd(s, j - 1) ELSE j

Strip(s) ==
    LET i == SkipClass(s, 1, WhiteSpace \cup {"\n"})
        j == RStripEnd(s, Len(s))
    IN  IF i > j THEN "" ELSE SubSeq(s, i, j)

\* str.split("\n"): the pieces between newlines, a trailing newline giving a
\* last empty piece
RECURSIVE SplitFrom(_, _, _)
SplitFrom(s, start, i) ==
    IF i > Len(s) THEN << SubSeq(s, start, Len(s)) >>
    ELSE IF Char(s, i) = "\n"
         THEN << SubSeq(s, start, i - 1) >> \o SplitFrom(s, i + 1, i + 1)
         ELSE SplitFrom(s, start, i + 1)

SplitLines(content) == SplitFrom(content, 1, 1)

\* the numbers of a finite set, ascending
RECURSIVE Ascending(_)
Ascending(S) ==
    IF S = {} THEN << >>
    ELSE LET least == CHOOSE n \in S : \A m \in S : n <= m
         IN  << least >> \o Ascending(S \ {least})

(***************************************************************************)
(* The sample sources                                                      *)
(***************************************************************************)
\* The file contents the model draws from; the first NumSamples are used.
Samples == <<
    "x = 1 + 2\n",
    "eval(x)\n",
    "import os\nsubprocess.run(cmd, shell=True)\n",
    "evaluate = 1\n",
    "import os\nx = (\n",
    "obj.eval(x)\n",
    "print(x)\n",
    "subprocess.run(cmd, shell=False)\n",
    "y = a & b\n",
    "def f(:\n",
    "# eval(x)\n",
    "subprocess.call(cmd, shell=flag)\n",
    "print(exec(code))\n",
    "password = 'abc'\n",
    "import subprocess\nshell.run(cmd, shell=True)\n",
    "import os\n",
    "x = 1\n\nimport pickle\n",
    "x = compile_flags\n",
    "url = 'javascript:go'\n",
    "q = 'SELECT * FROM t WHERE a = ' + x\n",
    "cursor.execute(f'SELECT 1')\n",
    "AWS_SECRET_ACCESS_KEY = 'abcdefghijklmnopqrstuv'\n",
    "h = 'Bearer abcdefghijklmnopqrstuv'\n",
    "aws_secret_access_key = 'abcdefghijklmnopqrstuv'\n",
    "os.system(a & b)\n",
    "  from os import path\n",
    "import pty\nimport pty\n",
    "x = 1\nfrom shlex import quote\n",
    "\nimport commands\n" >>

NumSamples == 13

Contents == { Samples[n] : n \in 1..NumSamples }

\* the samples the line scanner is checked on by itself
NumLineSamples == 28

(***************************************************************************)
(* security/patterns.py                                                    *)
(***************************************************************************)
INSECURE_FUNCTIONS == <<
    "eval", "exec", "execfile", "compile",
    "os.system", "os.popen", "os.popen2", "os.popen3", "os.popen4",
    "os.execl", "os.execle", "os.execlp", "os.execlpe",
    "os.execv", "os.execve", "os.execvp", "os.execvpe",
    "os.spawnl", "os.spawnle", "os.spawnlp", "os.spawnlpe",
    "os.spawnv", "os.spawnve", "os.spawnvp", "os.spawnvpe",
    "os.startfile",
    "pickle.load", "pickle.loads", "cPickle.load", "cPickle.loads",
    "subprocess.call", "subprocess.check_call", "subprocess.check_output",
    "subprocess.Popen", "subprocess.run",
    "pickle.Unpickler", "cPickle.Unpickler",
    "marshal.load", "marshal.loads",
    "yaml.load", "yaml.unsafe_load", "yaml.full_load",
    "pickletools.optimize" >>

\* DANGEROUS_IMPORTS: for each module the pair ^\s*import\s+M\s*$ and
\* ^\s*from\s+M\s+import, in the list's order
DangerousModules ==
    << "os", "subprocess", "pickle", "cPickle", "shell", "commands", "pty", "shlex" >>

DANGEROUS_IMPORTS ==
    [ k \in 1..(2 * Len(DangerousModules)) |->
        [ form |-> IF k % 2 = 1 THEN "import" ELSE "from",
          mod  |-> DangerousModules[(k + 1) \div 2] ] ]

\* re.search(r"^\s*import\s+M\s*$", line)
MatchImport(mod, line) ==
    LET i == SkipWs(line, 1)
        j == i + Len("import")
        k == SkipWs(line, j)
    IN  /\ StartsAt(line, i, "import")
        /\ k > j
        /\ StartsAt(line, k, mod)
        /\ SkipWs(line, k + Len(mod)) = Len(line) + 1

\* re.search(r"^\s*from\s+M\s+import", line)
MatchFromImport(mod, line) ==
    LET i == SkipWs(line, 1)
        j == i + Len("from")
        k == SkipWs(line, j)
        m == k + Len(mod)
        n == SkipWs(line, m)
    IN  /\ StartsAt(line, i, "from")
        /\ k > j
        /\ StartsAt(line, k, mod)
        /\ n > m
        /\ StartsAt(line, n, "import")

MatchDangerousImport(pattern, line) ==
    IF pattern.form = "import" THEN MatchImport(pattern.mod, line)
    ELSE MatchFromImport(pattern.mod, line)

\* A TLA+ string cannot hold the grave accent: the texts below write it as ~,
\* a character they do not use otherwise.
GraveAccent == "~"

\* the class [;&| and the grave accent]
ShellMeta == {";", "&", "|", GraveAccent}

\* line[i..j-1] holds no ")": what [^)]* may cross
NoCloseParen(line, i, j) == \A k \in i..(j - 1) : Char(line, k) # ")"

\* os\.system\([^)]*[;&|~]
MatchOsSystemMeta(line) ==
    \E i \in 1..Len(line) :
        /\ StartsAt(line, i, "os.system(")
        /\ \E j \in (i + Len("os.system("))..Len(line) :
              /\ Char(line, j) \in ShellMeta
              /\ NoCloseParen(line, i + Len("os.system("), j)

\* subprocess\.(call|check_call|check_output|run|Popen)\([^)]*shell\s*=\s*True[^)]*[;&|~]
SubprocessAlternatives == {"call", "check_call", "check_output", "run", "Popen"}

MatchSubprocessShellMeta(line) ==
    \E i \in 1..Len(line) : \E alt \in SubprocessAlternatives :
        LET open == "subprocess." \o alt \o "("
            a    == i + Len(open)
        IN  /\ StartsAt(line, i, open)
            /\ \E p \in a..Len(line) :
                  LET e  == SkipWs(line, p + Len("shell"))
                      t  == SkipWs(line, e + 1)
                      z  == t + Len("True")
                  IN  /\ NoCloseParen(line, a, p)
                      /\ StartsAt(line, p, "shell")
                      /\ Char(line, e) = "="
                      /\ StartsAt(line, t, "True")
                      /\ \E j \in z..Len(line) :
                            /\ Char(line, j) \in ShellMeta
                            /\ NoCloseParen(line, z, j)

HasChar(line, class) == \E i \in 1..Len(line) : Char(line, i) \in class

\* \$\([^)]*\)
MatchCommandSubstitution(line) ==
    \E i \in 1..Len(line) :
        /\ StartsAt(line, i, "$(")
        /\ \E j \in (i + 2)..Len(line) : Char(line, j) = ")"

\* ~[^~]*~ (of grave accents)
MatchBackticks(line) ==
    \E i \in 1..Len(line) : \E j \in (i + 1)..Len(line) :
        Char(line, i) = GraveAccent /\ Char(line, j) = GraveAccent

\* SHELL_INJECTION_PATTERNS, by position in the list
NumShellInjectionPatterns == 8

MatchShellInjection(k, line) ==
    CASE k = 1 -> MatchOsSystemMeta(line)
      [] k = 2 -> MatchSubprocessShellMeta(line)
      [] k = 3 -> HasChar(line, ShellMeta)
      [] k = 4 -> MatchCommandSubstitution(line)
      [] k = 5 -> MatchBackticks(line)
      [] k = 6 -> HasChar(line, {">", "<"})
      [] k = 7 -> HasChar(line, {"|"})
      [] k = 8 -> HasChar(line, {"&"})

\* Case folding of one character, as re.IGNORECASE and (?i) compare letters
LowerAlphabet == "abcdefghijklmnopqrstuvwxyz"
UpperAlphabet == "ABCDEFGHIJKLMNOPQRSTUVWXYZ"

Lower(c) ==
    IF c \in UpperLetters
    THEN Char(LowerAlphabet, CHOOSE k \in 1..Len(UpperAlphabet) : Char(UpperAlphabet, k) = c)
    ELSE c

\* the literal w at position i of line; ci: ignoring case
Lit(line, i, w, ci) ==
    IF ci
    THEN /\ i >= 1
         /\ i + Len(w) - 1 <= Len(line)
         /\ \A k \in 1..Len(w) : Lower(Char(line, i + k - 1)) = Lower(Char(w, k))
    ELSE StartsAt(line, i, w)

\* the class [\w-]
TokenChars == WordChars \cup {"-"}

\* the least length {20,} asks of a secret's value
MinSecretLen == 20

\* words[1] [_-]? words[2] [_-]? ... at position i: the position after the
\* match, 0 when there is none
RECURSIVE AfterWords(_, _, _, _)
AfterWords(line, i, words, ci) ==
    IF words = << >> THEN i
    ELSE IF ~Lit(line, i, Head(words), ci) THEN 0
    ELSE LET e == i + Len(Head(words))
             n == IF Tail(words) # << >> /\ Char(line, e) \in {"_", "-"} THEN e + 1 ELSE e
         IN  AfterWords(line, n, Tail(words), ci)

\* \s*[=:]\s*["\'][\w-]{20,}["\'] at position b
MatchAssignedToken(line, b) ==
    LET e == SkipWs(line, b)
        q == SkipWs(line, e + 1)
        z == SkipClass(line, q + 1, TokenChars)
    IN  /\ Char(line, e) \in {"=", ":"}
        /\ Char(line, q) \in Quotes
        /\ z - (q + 1) >= MinSecretLen
        /\ Char(line, z) \in Quotes

\* key words followed by an assigned token, anywhere in the line
MatchKeyToken(line, words, ci) ==
    \E i \in 1..Len(line) :
        LET b == AfterWords(line, i, words, ci)
        IN  b # 0 /\ MatchAssignedToken(line, b)

\* (?i)password\s*[=:]\s*["\'][^"\']+["\']
MatchPassword(line) ==
    \E i \in 1..Len(line) :
        LET e == SkipWs(line, i + Len("password"))
            q == SkipWs(line, e + 1)
            z == SkipClass(line, q + 1, {Char(line, k) : k \in 1..Len(line)} \ Quotes)
        IN  /\ Lit(line, i, "password", TRUE)
            /\ Char(line, e) \in {"=", ":"}
            /\ Char(line, q) \in Quotes
            /\ z > q + 1
            /\ Char(line, z) \in Quotes

\* bearer\s+[\w-]{20,}
MatchBearer(line, ci) ==
    \E i \in 1..Len(line) :
        LET j == i + Len("bearer")
            k == SkipWs(line, j)
        IN  /\ Lit(line, i, "bearer", ci)
            /\ k > j
            /\ SkipClass(line, k, TokenChars) - k >= MinSecretLen

\* oauth[\w-]*\s*[=:]\s*["\'][\w-]{20,}["\']
MatchOAuth(line, ci) ==
    \E i \in 1..Len(line) :
        /\ Lit(line, i, "oauth", ci)
        /\ MatchAssignedToken(line, SkipClass(line, i + Len("oauth"), TokenChars))

\* aws[_-]?(?:access[_-]?key[_-]?id|secret[_-]?access[_-]?key|session[_-]?token)
\*     \s*[=:]\s*["\'][\w-]{20,}["\']
AwsKeys == { << "aws", "access", "key", "id" >>,
             << "aws", "secret", "access", "key" >>,
             << "aws", "session", "token" >> }

MatchAws(line, ci) == \E words \in AwsKeys : MatchKeyToken(line, words, ci)

\* (?i)(?:postgres|postgresql|mysql|mongodb|redis)://[\w-]+:[^@\s]+@
DatabaseSchemes == {"postgres", "postgresql", "mysql", "mongodb", "redis"}

MatchDatabaseUri(line) ==
    \E i \in 1..Len(line) : \E scheme \in DatabaseSchemes :
        LET u == i + Len(scheme) + Len("://")
            v == SkipClass(line, u, TokenChars)
            w == SkipClass(line, v + 1,
                           {Char(line, k) : k \in 1..Len(line)} \ ({"@"} \cup WhiteSpace))
        IN  /\ Lit(line, i, scheme \o "://", TRUE)
            /\ v > u
            /\ Char(line, v) = ":"
            /\ w > v + 1
            /\ Char(line, w) = "@"

\* HARDCODED_SECRETS_PATTERNS, by position in the list; ignorecase: compiled
\* with re.IGNORECASE (patterns 1, 2, 3 and 7 carry (?i) themselves)
NumHardcodedSecretsPatterns == 7

MatchHardcodedSecret(k, line, ignorecase) ==
    CASE k = 1 -> MatchKeyToken(line, << "api", "key" >>, TRUE)
      [] k = 2 -> MatchPassword(line)
      [] k = 3 -> MatchKeyToken(line, << "secret", "key" >>, TRUE)
      [] k = 4 -> MatchBearer(line, ignorecase)
      [] k = 5 -> MatchOAuth(line, ignorecase)
      [] k = 6 -> MatchAws(line, ignorecase)
      [] k = 7 -> MatchDatabaseUri(line)

\* line[i..j-1] holds characters outside class only
NoneOf(line, i, j, class) == \A k \in i..(j - 1) : Char(line, k) \notin class

\* \s*[^\s"]*sql at position b, ignoring case: the white space, then a run
\* free of white space and double quotes, then the literal
MatchRunThenSql(line, b) ==
    LET t == SkipWs(line, b)
    IN  \E r \in t..Len(line) :
            /\ Lit(line, r, "sql", TRUE)
            /\ NoneOf(line, t, r, WhiteSpace \cup {"\""})

\* "[^"]*\s*OP\s*[^\s"]*sql for OP one of + and %
MatchQuotedOperatorSql(line, op) ==
    \E q \in 1..Len(line) : \E p \in (q + 1)..Len(line) :
        /\ Char(line, q) = "\""
        /\ NoneOf(line, q + 1, p, {"\""})
        /\ Char(line, p) = op
        /\ MatchRunThenSql(line, p + 1)

\* "[^"]*\s*\{\s*[^\s"]*\s*\}\s*[^\s"]*sql
MatchQuotedBracesSql(line) ==
    \E q \in 1..Len(line) : \E p \in (q + 1)..Len(line) :
        /\ Char(line, q) = "\""
        /\ NoneOf(line, q + 1, p, {"\""})
        /\ Char(line, p) = "{"
        /\ LET t == SkipWs(line, p + 1)
           IN  \E e \in t..Len(line) : \E m \in t..e :
                   /\ Char(line, e) = "}"
                   /\ NoneOf(line, t, m, WhiteSpace \cup {"\""})
                   /\ \A k \in m..(e - 1) : Char(line, k) \in WhiteSpace
                   /\ MatchRunThenSql(line, e + 1)

\* cursor\.(execute|executemany|callproc|executescript)\s*\(\s*f?["\']
CursorMethods == {"execute", "executemany", "callproc", "executescript"}

MatchCursorExecute(line) ==
    \E i \in 1..Len(line) : \E method \in CursorMethods :
        LET open == "cursor." \o method
            a    == SkipWs(line, i + Len(open))
            b    == SkipWs(line, a + 1)
            c    == IF Lower(Char(line, b)) = "f" THEN b + 1 ELSE b
        IN  /\ Lit(line, i, open, TRUE)
            /\ Char(line, a) = "("
            /\ Char(line, c) \in Quotes

\* SELECT\s+\*\s+FROM\s+\w+\s+WHERE\s+ : the position after WHERE and one
\* white space, 0 when the line has no match at i
AfterSelectWhere(line, i) ==
    LET a == i + Len("SELECT")
        b == SkipWs(line, a)
        c == SkipWs(line, b + 1)
        d == c + Len("FROM")
        e == SkipWs(line, d)
        f == SkipClass(line, e, WordChars)
        g == SkipWs(line, f)
        h == g + Len("WHERE")
    IN  IF /\ Lit(line, i, "SELECT", TRUE)
           /\ b > a
           /\ Char(line, b) = "*"
           /\ c > b + 1
           /\ Lit(line, c, "FROM", TRUE)
           /\ e > d
           /\ f > e
           /\ g > f
           /\ Lit(line, g, "WHERE", TRUE)
           /\ Char(line, h) \in WhiteSpace
        THEN h + 1
        ELSE 0

\* SELECT\s+\*\s+FROM\s+\w+\s+WHERE\s+[^;]+\s*%\s*\(
MatchSelectPercent(line) ==
    \E i \in 1..Len(line) :
        LET w == AfterSelectWhere(line, i)
        IN  /\ w # 0
            /\ \E p \in (w + 1)..Len(line) :
                  /\ NoneOf(line, w, p, {";"})
                  /\ Char(line, p) = "%"
                  /\ Char(line, SkipWs(line, p + 1)) = "("

\* SELECT\s+\*\s+FROM\s+\w+\s+WHERE\s+[^;]+\s*\+\s*
MatchSelectPlus(line) ==
    \E i \in 1..Len(line) :
        LET w == AfterSelectWhere(line, i)
        IN  /\ w # 0
            /\ \E p \in (w + 1)..Len(line) :
                  /\ NoneOf(line, w, p, {";"})
                  /\ Char(line, p) = "+"

\* SQL_INJECTION_PATTERNS, by position in the list, compiled with re.IGNORECASE
NumSqlInjectionPatterns == 6

MatchSqlInjection(k, line) ==
    CASE k = 1 -> MatchQuotedOperatorSql(line, "+")
      [] k = 2 -> MatchQuotedOperatorSql(line, "%")
      [] k = 3 -> MatchQuotedBracesSql(line)
      [] k = 4 -> MatchCursorExecute(line)
      [] k = 5 -> MatchSelectPercent(line)
      [] k = 6 -> MatchSelectPlus(line)

\* <\s*\/?\s*(?:script|iframe|...)
HtmlTags == {"script", "iframe", "object", "embed", "applet", "form", "input",
             "button", "select", "textarea", "style", "link", "meta", "base",
             "frame", "frameset"}

MatchHtmlTag(line) ==
    \E i \in 1..Len(line) : \E tag \in HtmlTags :
        LET a == SkipWs(line, i + 1)
            b == IF Char(line, a) = "/" THEN a + 1 ELSE a
        IN  Char(line, i) = "<" /\ Lit(line, SkipWs(line, b), tag, TRUE)

\* on(?:load|click|...)
EventNames == {"load", "click", "dblclick", "mousedown", "mouseup", "mousemove",
               "mouseout", "mouseover", "mouseenter", "mouseleave", "keydown",
               "keyup", "keypress", "submit", "reset", "focus", "blur", "change",
               "select", "error"}

ContainsLit(line, w) == \E i \in 1..Len(line) : Lit(line, i, w, TRUE)

MatchEventHandler(line) == \E ev \in EventNames : ContainsLit(line, "on" \o ev)

\* data:\s*text\/(?:html|javascript|vbscript)
MatchDataUri(line) ==
    \E i \in 1..Len(line) : \E kind \in {"html", "javascript", "vbscript"} :
        /\ Lit(line, i, "data:", TRUE)
        /\ Lit(line, SkipWs(line, i + Len("data:")), "text/" \o kind, TRUE)

\* XSS_PATTERNS, by position in the list, compiled with re.IGNORECASE
NumXssPatterns == 4

MatchXss(k, line) ==
    CASE k = 1 -> MatchHtmlTag(line)
      [] k = 2 -> MatchEventHandler(line)
      [] k = 3 -> ContainsLit(line, "javascript:")
      [] k = 4 -> MatchDataUri(line)

\* re.compile(rf"\b{re.escape(func)}\s*\(").search(line): every name begins
\* and ends with a word character, so \b asks for no word character before it
MatchInsecureFunctionCall(func, line) ==
    \E i \in 1..Len(line) :
        /\ StartsAt(line, i, func)
        /\ Char(line, i - 1) \notin WordChars
        /\ Char(line, SkipWs(line, i + Len(func))) = "("

\* COMPILED_PATTERNS: the matchers of each category, in order;
\* CompiledMatch(category, k, line) is COMPILED_PATTERNS[category][k].search(line)
CompiledCategories ==
    << "insecure_functions", "dangerous_imports", "shell_injection",
       "hardcoded_secrets", "sql_injection", "xss" >>

CompiledCount(category) ==
    CASE category = "insecure_functions" -> Len(INSECURE_FUNCTIONS)
      [] category = "dangerous_imports"  -> Len(DANGEROUS_IMPORTS)
      [] category = "shell_injection"    -> NumShellInjectionPatterns
      [] category = "hardcoded_secrets"  -> NumHardcodedSecretsPatterns
      [] category = "sql_injection"      -> NumSqlInjectionPatterns
      [] category = "xss"                -> NumXssPatterns

CompiledMatch(category, k, line) ==
    CASE category = "insecure_functions" -> MatchInsecureFunctionCall(INSECURE_FUNCTIONS[k], line)
      [] category = "dangerous_imports"  -> MatchDangerousImport(DANGEROUS_IMPORTS[k], line)
      [] category = "shell_injection"    -> MatchShellInjection(k, line)
      [] category = "hardcoded_secrets"  -> MatchHardcodedSecret(k, line, TRUE)
      [] category = "sql_injection"      -> MatchSqlInjection(k, line)
      [] category = "xss"                -> MatchXss(k, line)

(***************************************************************************)
(* security/validator.py: SecurityLevel, SecurityIssue                     *)
(***************************************************************************)
\* SecurityLevel: the values auto() gives
LOW == 1
MEDIUM == 2
HIGH == 3
CRITICAL == 4

\* SecurityLevel(value).name
LevelName(level) ==
    CASE level = LOW -> "LOW"
      [] level = MEDIUM -> "MEDIUM"
      [] level = HIGH -> "HIGH"
      [] level = CRITICAL -> "CRITICAL"

\* the dataclass's fields; all but level and message default to None
SecurityIssueFields ==
    {"level", "message", "line", "column", "code_snippet", "fix_suggestion"}

\* SecurityIssue(**kwargs): the generated __init__ accepts the fields only and
\* raises TypeError for any other keyword
SecurityIssue(kwargs) ==
    IF DOMAIN kwargs \subseteq SecurityIssueFields
    THEN [ raised |-> FALSE,
           error  |-> "",
           issue  |-> [ level          |-> kwargs.level,
                        message        |-> kwargs.message,
                        line           |-> IF "line" \in DOMAIN kwargs
                                           THEN kwargs.line ELSE NoneInt,
                        column         |-> IF "column" \in DOMAIN kwargs
                                           THEN kwargs.column ELSE NoneInt,
                        code_snippet   |-> IF "code_snippet" \in DOMAIN kwargs
                                           THEN kwargs.code_snippet ELSE NoneStr,
                        fix_suggestion |-> IF "fix_suggestion" \in DOMAIN kwargs
                                           THEN kwargs.fix_suggestion ELSE NoneStr ] ]
    ELSE [ raised |-> TRUE,
           error  |-> "SecurityIssue.__init__() got an unexpected keyword argument '"
                      \o (CHOOSE k \in DOMAIN kwargs \ SecurityIssueFields : TRUE)
                      \o "'",
           issue  |-> << >> ]

\* to_dict giving the level as str(self.level), not as its name
to_dict_str_level(issue) ==
    [ level          |-> "SecurityLevel." \o LevelName(issue.level),
      message        |-> issue.message,
      line           |-> issue.line,
      column         |-> issue.column,
      code_snippet   |-> issue.code_snippet,
      fix_suggestion |-> issue.fix_suggestion ]

\* SecurityIssue.to_dict
to_dict(issue) ==
    [ level          |-> LevelName(issue.level),
      message        |-> issue.message,
      line           |-> issue.line,
      column         |-> issue.column,
      code_snippet   |-> issue.code_snippet,
      fix_suggestion |-> issue.fix_suggestion ]

\* [issue.to_dict() for issue in issues]
ToDicts(issues) == [ n \in 1..Len(issues) |-> to_dict(issues[n]) ]

(***************************************************************************)
(* SecurityValidator._check_insecure_patterns: the line scanner            *)
(***************************************************************************)
\* for i, line in enumerate(lines, 1): for k in 1..n: if <<i, k>> is a hit --
\* the hits in the order the two loops reach them
ScanPass(lines, n, hits) ==
    [ m \in 1..Cardinality(hits) |->
        << (Ascending({ (h[1] - 1) * n + (h[2] - 1) : h \in hits })[m] \div n) + 1,
           (Ascending({ (h[1] - 1) * n + (h[2] - 1) : h \in hits })[m] % n) + 1 >> ]

\* the pairs of a line and a pattern the loops go through
Pairs(lines, n) == (1..Len(lines)) \X (1..n)

\* the SecurityIssue a pass appends for line i (text line) and its pattern k
PassIssue(pass, line, i, k) ==
    CASE pass = "dangerous_imports" ->
            SecurityIssue([ level          |-> HIGH,
                            message        |-> "Dangerous import detected: " \o Strip(line),
                            line           |-> i,
                            code_snippet   |-> line,
                            fix_suggestion |-> "Avoid using " \o Strip(line)
                                               \o ", use safer alternatives" ]).issue
      [] pass = "insecure_functions" ->
            SecurityIssue([ level          |-> HIGH,
                            message        |-> "Insecure function call: " \o INSECURE_FUNCTIONS[k],
                            line           |-> i,
                            code_snippet   |-> line,
                            fix_suggestion |-> "Replace " \o INSECURE_FUNCTIONS[k]
                                               \o " with a safer alternative" ]).issue
      [] pass = "shell_injection" ->
            SecurityIssue([ level          |-> CRITICAL,
                            message        |-> "Potential shell injection vulnerability",
                            line           |-> i,
                            code_snippet   |-> line,
                            fix_suggestion |-> "Use subprocess with shell=False or use shlex.quote() for shell=True" ]).issue
      [] pass = "hardcoded_secrets" ->
            SecurityIssue([ level          |-> HIGH,
                            message        |-> "Potential hardcoded secret detected",
                            line           |-> i,
                            code_snippet   |-> line,
                            fix_suggestion |-> "Store secrets in environment variables or a secure secret manager" ]).issue

\* self.issues.append(SecurityIssue(...)) for every hit of a pass, in order
PassIssues(pass, lines, found) ==
    [ m \in 1..Len(found) |-> PassIssue(pass, lines[found[m][1]], found[m][1], found[m][2]) ]

\* the dangerous-import pass numbering only the lines that are not empty
DangerousImportIssuesSkippingBlank(lines) ==
    PassIssues("dangerous_imports", SelectSeq(lines, LAMBDA l : l # ""),
        ScanPass(SelectSeq(lines, LAMBDA l : l # ""), Len(DANGEROUS_IMPORTS),
                 { h \in Pairs(SelectSeq(lines, LAMBDA l : l # ""), Len(DANGEROUS_IMPORTS)) :
                     MatchDangerousImport(DANGEROUS_IMPORTS[h[2]],
                                          SelectSeq(lines, LAMBDA l : l # "")[h[1]]) }))

DangerousImportIssues(lines) ==
    PassIssues("dangerous_imports", lines,
        ScanPass(lines, Len(DANGEROUS_IMPORTS),
                 { h \in Pairs(lines, Len(DANGEROUS_IMPORTS)) :
                     MatchDangerousImport(DANGEROUS_IMPORTS[h[2]], lines[h[1]]) }))

\* func in line and not line.strip().startswith("#")
MatchInsecureFunction(func, line) ==
    Contains(line, func) /\ ~StartsAt(Strip(line), 1, "#")

InsecureFunctionIssues(lines) ==
    PassIssues("insecure_functions", lines,
        ScanPass(lines, Len(INSECURE_FUNCTIONS),
                 { h \in Pairs(lines, Len(INSECURE_FUNCTIONS)) :
                     MatchInsecureFunction(INSECURE_FUNCTIONS[h[2]], lines[h[1]]) }))

ShellInjectionIssues(lines) ==
    PassIssues("shell_injection", lines,
        ScanPass(lines, NumShellInjectionPatterns,
                 { h \in Pairs(lines, NumShellInjectionPatterns) :
                     MatchShellInjection(h[2], lines[h[1]]) }))

HardcodedSecretIssues(lines) ==
    PassIssues("hardcoded_secrets", lines,
        ScanPass(lines, NumHardcodedSecretsPatterns,
                 { h \in Pairs(lines, NumHardcodedSecretsPatterns) :
                     MatchHardcodedSecret(h[2], lines[h[1]], FALSE) }))

\* the issues the four passes of _check_insecure_patterns(content) append
LineIssues(content) ==
    LET lines == SplitLines(content)
    IN  DangerousImportIssues(lines) \o InsecureFunctionIssues(lines)
            \o ShellInjectionIssues(lines) \o HardcodedSecretIssues(lines)

\* LineIssues of every sample, evaluated once
LineScan == [ content \in { Samples[n] : n \in 1..Len(Samples) } |-> LineIssues(content) ]

\* self.issues after _check_insecure_patterns(content), from self.issues = issues
CheckInsecurePatterns(issues, content) == issues \o LineScan[content]

(***************************************************************************)
(* ast.parse                                                               *)
(***************************************************************************)
\* ast.Call nodes: func an ast.Name (id) or an ast.Attribute (attr, on a value
\* that is an ast.Name value_id here); keywords of ast.keyword (arg, and a value
\* that is an ast.Constant or an ast.Name)
NameCall(id, keywords, lineno, col_offset) ==
    [ func_type |-> "Name", func_id |-> id, func_attr |-> "",
      value_type |-> "", value_id |-> "",
      keywords |-> keywords, lineno |-> lineno, col_offset |-> col_offset ]

AttributeCall(value_id, attr, keywords, lineno, col_offset) ==
    [ func_type |-> "Attribute", func_id |-> "", func_attr |-> attr,
      value_type |-> "Name", value_id |-> value_id,
      keywords |-> keywords, lineno |-> lineno, col_offset |-> col_offset ]

Keyword(arg, value_type, value) ==
    [ arg |-> arg, value_type |-> value_type, value |-> value ]

Parsed(calls) ==
    [ ok |-> TRUE, msg |-> "", lineno |-> NoneInt, offset |-> NoneInt, calls |-> calls ]

ParseFailure(msg, lineno, offset) ==
    [ ok |-> FALSE, msg |-> msg, lineno |-> lineno, offset |-> offset, calls |-> << >> ]

\* ast.parse(content) for the samples, as CPython parses them: the Call nodes
\* of the tree in the order NodeVisitor visits them, or the SyntaxError raised
AstParse(content) ==
    CASE content = "x = 1 + 2\n" -> Parsed(<< >>)
      [] content = "eval(x)\n" -> Parsed(<< NameCall("eval", << >>, 1, 0) >>)
      [] content = "import os\nsubprocess.run(cmd, shell=True)\n" ->
            Parsed(<< AttributeCall("subprocess", "run",
                                    << Keyword("shell", "Constant", "True") >>, 2, 0) >>)
      [] content = "evaluate = 1\n" -> Parsed(<< >>)
      [] content = "import os\nx = (\n" -> ParseFailure("'(' was never closed", 2, 5)
      [] content = "obj.eval(x)\n" -> Parsed(<< AttributeCall("obj", "eval", << >>, 1, 0) >>)
      [] content = "print(x)\n" -> Parsed(<< NameCall("print", << >>, 1, 0) >>)
      [] content = "subprocess.run(cmd, shell=False)\n" ->
            Parsed(<< AttributeCall("subprocess", "run",
                                    << Keyword("shell", "Constant", "False") >>, 1, 0) >>)
      [] content = "y = a & b\n" -> Parsed(<< >>)
      [] content = "def f(:\n" -> ParseFailure("invalid syntax", 1, 7)
      [] content = "# eval(x)\n" -> Parsed(<< >>)
      [] content = "subprocess.call(cmd, shell=flag)\n" ->
            Parsed(<< AttributeCall("subprocess", "call",
                                    << Keyword("shell", "Name", "flag") >>, 1, 0) >>)
      [] content = "print(exec(code))\n" ->
            Parsed(<< NameCall("print", << >>, 1, 0), NameCall("exec", << >>, 1, 6) >>)
      [] content = "password = 'abc'\n" -> Parsed(<< >>)
      [] content = "import subprocess\nshell.run(cmd, shell=True)\n" ->
            Parsed(<< AttributeCall("shell", "run",
                                    << Keyword("shell", "Constant", "True") >>, 2, 0) >>)
      [] content = "import os\n" -> Parsed(<< >>)
      [] content = "x = 1\n\nimport pickle\n" -> Parsed(<< >>)
      [] content = "x = compile_flags\n" -> Parsed(<< >>)
      [] content = "url = 'javascript:go'\n" -> Parsed(<< >>)
      [] content = "q = 'SELECT * FROM t WHERE a = ' + x\n" -> Parsed(<< >>)
      [] content = "cursor.execute(f'SELECT 1')\n" ->
            Parsed(<< AttributeCall("cursor", "execute", << >>, 1, 0) >>)
      [] content = "AWS_SECRET_ACCESS_KEY = 'abcdefghijklmnopqrstuv'\n" -> Parsed(<< >>)
      [] content = "h = 'Bearer abcdefghijklmnopqrstuv'\n" -> Parsed(<< >>)
      [] content = "aws_secret_access_key = 'abcdefghijklmnopqrstuv'\n" -> Parsed(<< >>)
      [] content = "os.system(a & b)\n" ->
            Parsed(<< AttributeCall("os", "system", << >>, 1, 0) >>)
      [] content = "  from os import path\n" -> ParseFailure("unexpected indent", 1, 2)
      [] content = "import pty\nimport pty\n" -> Parsed(<< >>)
      [] content = "x = 1\nfrom shlex import quote\n" -> Parsed(<< >>)
      [] content = "\nimport commands\n" -> Parsed(<< >>)

(***************************************************************************)
(* SecurityASTAnalyzer                                                     *)
(***************************************************************************)
\* visit_Call(node), before generic_visit: the SecurityIssue constructions it
\* makes, in order
DangerousCallAttempt(node) ==
    IF node.func_type = "Name" /\ node.func_id \in {"eval", "exec", "execfile"}
    THEN << SecurityIssue([ level          |-> CRITICAL,
                            message        |-> "Use of dangerous function: " \o node.func_id,
                            line           |-> node.lineno,
                            col_offset     |-> node.col_offset,
                            fix_suggestion |-> "Avoid using " \o node.func_id
                                               \o ", consider safer alternatives" ]) >>
    ELSE << >>

\* visit_Call taking any shell keyword for shell=True
IsShellGiven(kw) == kw.arg = "shell"

IsShellTrue(kw) ==
    kw.arg = "shell" /\ kw.value_type = "Constant" /\ kw.value = "True"

ShellTrueAttempts(node) ==
    IF /\ node.func_type = "Attribute"
       /\ node.func_attr \in {"Popen", "run", "call"}
       /\ node.value_type = "Name"
       /\ node.value_id = "subprocess"
    THEN LET from[n \in 1..(Len(node.keywords) + 1)] ==
                 IF n > Len(node.keywords) THEN << >>
                 ELSE (IF IsShellTrue(node.keywords[n])
                       THEN << SecurityIssue(
                                 [ level          |-> HIGH,
                                   message        |-> "Potential shell injection with shell=True",
                                   line           |-> node.lineno,
                                   col_offset     |-> node.col_offset,
                                   fix_suggestion |-> "Avoid shell=True when possible, or use shlex.quote() on arguments" ]) >>
                       ELSE << >>) \o from[n + 1]
         IN  from[1]
    ELSE << >>

visit_Call(node) == DangerousCallAttempt(node) \o ShellTrueAttempts(node)

\* visit_Call on every Call node of the tree, in visiting order: the
\* SecurityIssue constructions attempted
VisitCalls(calls) ==
    LET attempts[n \in 0..Len(calls)] ==
            IF n = 0 THEN << >> ELSE attempts[n - 1] \o visit_Call(calls[n])
    IN  attempts[Len(calls)]

\* the constructions that raise
Raising(attempts) == { n \in 1..Len(attempts) : attempts[n].raised }

Earliest(S) == CHOOSE n \in S : \A m \in S : n <= m

\* the walk ends at the first construction that raises, with that exception
WalkOutcome(attempts, failed) ==
    IF failed = {}
    THEN [ raised |-> FALSE, error |-> "",
           issues |-> [ n \in 1..Len(attempts) |-> attempts[n].issue ] ]
    ELSE [ raised |-> TRUE, error |-> attempts[Earliest(failed)].error,
           issues |-> << >> ]

WalkAttempts(attempts) == WalkOutcome(attempts, Raising(attempts))

\* analyzer.visit(tree): analyzer.issues, or the exception that ended the walk
AnalyzerVisit(calls) == WalkAttempts(VisitCalls(calls))

\* self.issues.extend(analyzer.issues), which an exception in analyzer.visit
\* never reaches
ExtendIssues(issues, analyzer) ==
    IF analyzer.raised
    THEN [ raised |-> TRUE, error |-> analyzer.error, issues |-> issues ]
    ELSE [ raised |-> FALSE, error |-> "", issues |-> issues \o analyzer.issues ]

\* SecurityValidator._analyze_ast: self.issues after the call, or the exception
\* that left analyzer.visit, self.issues untouched
AnalyzeAst(issues, calls) == ExtendIssues(issues, AnalyzerVisit(calls))

(***************************************************************************)
(* SecurityValidator.validate_file                                         *)
(***************************************************************************)
\* A path names a regular file, a directory or nothing; a regular file may be
\* unreadable (permission denied) or not be UTF-8 text.
\* open(file_path, "r", encoding="utf-8").read()
ReadFile(path, node) ==
    CASE node.kind = "missing" ->
            [ raised |-> TRUE, content |-> "",
              error |-> "[Errno 2] No such file or directory: '" \o path \o "'" ]
      [] node.kind = "dir" ->
            [ raised |-> TRUE, content |-> "",
              error |-> "[Errno 21] Is a directory: '" \o path \o "'" ]
      [] node.kind = "file" /\ node.mode = "denied" ->
            [ raised |-> TRUE, content |-> "",
              error |-> "[Errno 13] Permission denied: '" \o path \o "'" ]
      [] node.kind = "file" /\ node.mode = "binary" ->
            [ raised |-> TRUE, content |-> "",
              error |-> "'utf-8' codec can't decode byte 0xff in position 0: invalid start byte" ]
      [] node.kind = "file" /\ node.mode = "ok" ->
            [ raised |-> FALSE, content |-> node.content, error |-> "" ]

\* validate_file with the except SyntaxError handler leaving the column out
SyntaxErrorIssueNoColumn(found, lines, e) ==
    [ raised |-> FALSE, error |-> "",
      issues |-> Append(found,
          SecurityIssue([ level        |-> HIGH,
                          message      |-> "Syntax error in file: " \o e.msg,
                          line         |-> e.lineno,
                          code_snippet |-> NoneStr ]).issue) ]

\* validate_file with the except SyntaxError handler putting its issue first
SyntaxErrorIssueFirst(found, lines, e) ==
    [ raised |-> FALSE, error |-> "",
      issues |-> << SecurityIssue([ level        |-> HIGH,
                                    message      |-> "Syntax error in file: " \o e.msg,
                                    line         |-> e.lineno,
                                    column       |-> e.offset,
                                    code_snippet |-> NoneStr ]).issue >> \o found ]

\* the SecurityIssue of the except SyntaxError handler, or the IndexError of
\* content.split("\n")[e.lineno - 1]
SyntaxErrorIssue(issues, lines, e) ==
    IF e.lineno # NoneInt /\ e.lineno > Len(lines)
    THEN [ raised |-> TRUE, error |-> "list index out of range", issues |-> issues ]
    ELSE [ raised |-> FALSE, error |-> "",
           issues |-> Append(issues,
               SecurityIssue([ level        |-> HIGH,
                               message      |-> "Syntax error in file: " \o e.msg,
                               line         |-> e.lineno,
                               column       |-> e.offset,
                               code_snippet |-> IF e.lineno # NoneInt
                                                THEN lines[e.lineno]
                                                ELSE NoneStr ]).issue) ]

\* the except SyntaxError handler: self.issues after it, or its exception
SyntaxErrorHandler(issues, content, e) == SyntaxErrorIssue(issues, SplitLines(content), e)

\* the inner try after ast.parse: _analyze_ast or the SyntaxError handler
AnalyzeOrReport(issues, content, tree) ==
    IF tree.ok THEN AnalyzeAst(issues, tree.calls)
    ELSE SyntaxErrorHandler(issues, content, tree)

\* the inner try: ast.parse, then _analyze_ast or the SyntaxError handler
ParseAndAnalyze(issues, content) == AnalyzeOrReport(issues, content, AstParse(content))

\* validate_file with the except Exception handler reporting at MEDIUM
ExceptionHandlerMedium(found, error) ==
    Append(found, SecurityIssue([ level        |-> MEDIUM,
                                  message      |-> "Error validating file: " \o error,
                                  code_snippet |-> error ]).issue)

\* the except Exception handler
ExceptionHandler(issues, error) ==
    Append(issues, SecurityIssue([ level        |-> HIGH,
                                   message      |-> "Error validating file: " \o error,
                                   code_snippet |-> error ]).issue)

\* validate_file without "self.issues = []"
KeptIssues(found) == found

\* self.issues = []
FreshIssues(issues) == << >>

\* validate_file swallowing the exception of the try body without an issue
ReturnedSilently(analysed, ran) == [ issues |-> analysed.issues, ran |-> ran ]

\* return self.issues, after the except Exception handler when the try body
\* raised; ran: which of the line scanner ("line") and the syntax analyzer
\* ("ast") were run on the way
Returned(analysed, ran) ==
    [ issues |-> IF analysed.raised
                 THEN ExceptionHandler(analysed.issues, analysed.error)
                 ELSE analysed.issues,
      ran    |-> ran ]

\* the phases run on a file that was read
PhasesRun(tree) == IF tree.ok THEN {"line", "ast"} ELSE {"line"}

\* the outer try once the file is opened and read, or not
ValidateContent(start, read) ==
    IF read.raised
    THEN Returned([ raised |-> TRUE, error |-> read.error, issues |-> start ], {})
    ELSE Returned(ParseAndAnalyze(CheckInsecurePatterns(start, read.content), read.content),
                  PhasesRun(AstParse(read.content)))

\* validate_file(file_path), called with self.issues = issues: the list returned
\* (self.issues when it returns), and the phases run
ValidateFile(issues, path, node) == ValidateContent(FreshIssues(issues), ReadFile(path, node))

(***************************************************************************)
(* The file system                                                         *)
(***************************************************************************)
\* Path(a) / b
Join(a, b) == a \o "/" \o b

\* the process's working directory
Cwd == "/r"

\* Path(directory).resolve(), of a path without "..", "." or symbolic links
Resolve(path) == IF StartsAt(path, 1, "/") THEN path ELSE Join(Cwd, path)

\* the last position of character c in s, 0 when there is none: s.rfind(c) + 1
RFind(s, c) ==
    LET at == { i \in 1..Len(s) : Char(s, i) = c }
    IN  IF at = {} THEN 0 ELSE CHOOSE i \in at : \A j \in at : j <= i

\* PurePath.name and PurePath.suffix
PathName(path) == SubSeq(path, RFind(path, "/") + 1, Len(path))

PathSuffix(path) ==
    LET name == PathName(path)
        dot  == RFind(name, ".")
    IN  IF dot > 1 /\ dot < Len(name) THEN SubSeq(name, dot, Len(name)) ELSE ""

\* str.lower()
LowerStr(s) ==
    LET from[i \in 1..(Len(s) + 1)] ==
            IF i > Len(s) THEN "" ELSE Lower(Char(s, i)) \o from[i + 1]
    IN  from[1]

\* fnmatch.fnmatch(name, pattern) on POSIX, for patterns of literals, * and ?
RECURSIVE GlobFrom(_, _, _, _)
GlobFrom(name, i, pattern, j) ==
    IF j > Len(pattern) THEN i > Len(name)
    ELSE IF Char(pattern, j) = "*"
         THEN \E k \in i..(Len(name) + 1) : GlobFrom(name, k, pattern, j + 1)
         ELSE /\ i <= Len(name)
              /\ Char(pattern, j) \in {"?", Char(name, i)}
              /\ GlobFrom(name, i + 1, pattern, j + 1)

fnmatch(name, pattern) == GlobFrom(name, 1, pattern, 1)

\* The tree on disk. /r/a.py is the file whose state the model varies; no
\* file changes while the program runs.
ProbePath == "/r/a.py"

Directories ==
    [ path \in {"/r", "/r/venv", "/r/locked", "/r/pkg", "/r/pkg/node_modules"} |->
        CASE path = "/r"      -> [ dirs |-> {"venv", "locked", "pkg"},
                                   files |-> {"a.py", "notes.md"} ]
          [] path = "/r/venv" -> [ dirs |-> {}, files |-> {"b.py"} ]
          [] path = "/r/locked" -> [ dirs |-> {}, files |-> {"e.py"} ]
          [] path = "/r/pkg"  -> [ dirs |-> {"node_modules"}, files |-> {"c.py", "c.pyc"} ]
          [] path = "/r/pkg/node_modules" -> [ dirs |-> {}, files |-> {"d.py"} ] ]

\* the directories the process may not list: os.scandir raises PermissionError
Unlistable == { "/r/locked" }

TextFile(content) == [ kind |-> "file", mode |-> "ok", content |-> content ]
UnreadableFile(mode) == [ kind |-> "file", mode |-> mode, content |-> "" ]
Directory == [ kind |-> "dir", mode |-> "", content |-> "" ]
Missing == [ kind |-> "missing", mode |-> "", content |-> "" ]

FixedFiles ==
    [ path \in {"/r/notes.md", "/r/venv/b.py", "/r/locked/e.py", "/r/pkg/c.py",
                "/r/pkg/c.pyc", "/r/pkg/node_modules/d.py"} |->
        CASE path = "/r/notes.md"   -> TextFile("eval(x)\n")
          [] path = "/r/venv/b.py"  -> TextFile("import os\n")
          [] path = "/r/locked/e.py" -> TextFile("eval(x)\n")
          [] path = "/r/pkg/c.py"   -> TextFile("import os\n")
          [] path = "/r/pkg/c.pyc"  -> UnreadableFile("binary")
          [] path = "/r/pkg/node_modules/d.py" -> TextFile("eval(x)\n") ]

\* the states /r/a.py may be in
ProbeStates ==
    { TextFile(c) : c \in Contents }
        \cup { UnreadableFile("denied"), UnreadableFile("binary"), Missing }

\* what the operating system finds at path, /r/a.py being in state probeNode
NodeAt(path, probeNode) ==
    LET abs == Resolve(path)
    IN  IF abs = ProbePath THEN probeNode
        ELSE IF abs \in DOMAIN FixedFiles THEN FixedFiles[abs]
        ELSE IF abs \in DOMAIN Directories THEN Directory
        ELSE Missing

\* Path.exists(), Path.is_dir(), Path.is_file()
Exists(node) == node.kind # "missing"
IsDir(node) == node.kind = "dir"
IsFile(node) == node.kind = "file"

(***************************************************************************)
(* security/scanner.py: SecurityScanner                                    *)
(***************************************************************************)
\* The configurations a scanner is constructed with: a mapping from some of the
\* keys exclude_dirs, exclude_files, scan_extensions, scan_patterns.
EmptyConfig == [ key \in {} |-> {} ]

Configs ==
    { EmptyConfig,
      [ exclude_dirs |-> {"pkg"} ],
      [ scan_extensions |-> {".md"} ],
      [ scan_patterns |-> {"n*.md"} ],
      [ scan_extensions |-> {".txt"}, scan_patterns |-> {"n*.md"} ] }

\* self.config.get(key, default)
ConfigGet(config, key, default) ==
    IF key \in DOMAIN config THEN config[key] ELSE default

\* __init__ adding the supplied exclude_dirs to the default ones
ExcludeDirsMerged(configured) ==
    {".git", "__pycache__", "venv", "env", "node_modules"}
        \cup ConfigGet(configured, "exclude_dirs", {})

\* self.exclude_dirs and self.exclude_files, as __init__ sets them
ExcludeDirs(config) ==
    ConfigGet(config, "exclude_dirs", {".git", "__pycache__", "venv", "env", "node_modules"})

ExcludeFiles(config) ==
    ConfigGet(config, "exclude_files", {"*.pyc", "*.pyo", "*.pyd", "*.so", "*.dll"})

\* _should_scan_file(file_path)
ShouldScanFile(config, file_path) ==
    IF PathSuffix(file_path) = ".py" THEN TRUE
    ELSE IF "scan_extensions" \in DOMAIN config
         THEN LowerStr(PathSuffix(file_path)) \in config["scan_extensions"]
    ELSE IF "scan_patterns" \in DOMAIN config
         THEN \E pattern \in config["scan_patterns"] : fnmatch(PathName(file_path), pattern)
    ELSE FALSE

\* scan_directory without the test on exclude_files
NoFileExcluded(configured, file) == FALSE

\* any(fnmatch.fnmatch(file, pattern) for pattern in self.exclude_files)
IsExcludedFile(config, file) ==
    \E pattern \in ExcludeFiles(config) : fnmatch(file, pattern)

\* file_path.suffix == '.py' or self._should_scan_file(file_path)
IsEligible(config, file_path) ==
    PathSuffix(file_path) = ".py" \/ ShouldScanFile(config, file_path)

\* scan_directory without "dirs[:] = [d for d in dirs if d not in self.exclude_dirs]"
KeepDirs(configured, dirs) == dirs

\* dirs[:] = [d for d in dirs if d not in self.exclude_dirs]
PruneDirs(config, dirs) == SelectSeq(dirs, LAMBDA d : d \notin ExcludeDirs(config))

\* the directory mapping with results[key] = value
Store(results, key, value) ==
    [ k \in DOMAIN results \cup {key} |-> IF k = key THEN value ELSE results[k] ]

EmptyResults == [ key \in {} |-> << >> ]

\* What the model remembers of one earlier validate_file call, to compare a
\* later call on the same unchanged file with it; between: a call on another
\* file came after the remembered one and before the compared one.
\* held: what the list object returned by the remembered call holds now, as
\* its caller sees it; alias: self.issues still names that object.
NoMemo ==
    [ set |-> FALSE, path |-> "", first |-> << >>, between |-> FALSE,
      again |-> FALSE, second |-> << >>, held |-> << >>, alias |-> FALSE ]

\* return self.issues: the caller receives the object self.issues names
Remember(path, issues) ==
    [ NoMemo EXCEPT !.set = TRUE, !.path = Resolve(path), !.first = issues,
                    !.held = issues, !.alias = TRUE ]

\* validate_file emptying the list in place instead of binding a new one
IssuesClearedInPlace(alias) == alias

\* self.issues = []: the attribute is bound to a new list object, so it no
\* longer names a list returned before
IssuesRebound(alias) == FALSE

\* a later validate_file call that found issues: a list self.issues still
\* names is the one the call filled
LaterCall(m, issues) ==
    [ m EXCEPT !.alias = IssuesRebound(m.alias),
               !.held = IF IssuesRebound(m.alias) THEN issues ELSE m.held ]

Compare(m, path, issues) ==
    IF m.set /\ m.path = Resolve(path)
    THEN [ LaterCall(m, issues) EXCEPT !.again = TRUE, !.second = issues ]
    ELSE IF m.set /\ ~m.again THEN [ LaterCall(m, issues) EXCEPT !.between = TRUE ]
    ELSE IF m.set THEN LaterCall(m, issues)
    ELSE m

\* scan_directory storing every validated file's list, empty or not
AfterValidateDense(before, file_path, found) ==
    [ issues     |-> found,
      results    |-> Store(before.results, file_path, ToDicts(found)),
      dispatched |-> Append(before.dispatched, file_path),
      memo       |-> Compare(before.memo, file_path, found) ]

\* validate_file's result stored under the path when it is not empty, the
\* validator's issues, the files dispatched and the memory updated
AfterValidate(before, file_path, found) ==
    [ issues     |-> found,
      results    |-> IF found # << >>
                     THEN Store(before.results, file_path, ToDicts(found))
                     ELSE before.results,
      dispatched |-> Append(before.dispatched, file_path),
      memo       |-> Compare(before.memo, file_path, found) ]

\* the body of "for file in files" for one file
ScanOne(config, file, file_path, probeNode, before) ==
    IF IsExcludedFile(config, file) THEN before
    ELSE IF ~IsEligible(config, file_path) THEN before
    ELSE AfterValidate(before, file_path,
                       ValidateFile(before.issues, file_path,
                                    NodeAt(file_path, probeNode)).issues)

\* the loop "for file in files" of scan_directory in directory root, the
\* validator's issues, the results, the files dispatched and the memory
\* threaded through it
ScanFiles(config, root, files, probeNode, state) ==
    LET after[n \in 0..Len(files)] ==
            IF n = 0 THEN state
            ELSE ScanOne(config, files[n], Join(root, files[n]), probeNode, after[n - 1])
    IN  after[Len(files)]

\* the orders in which a directory listing may give the names of a set
Orders(names) ==
    { order \in [ 1..Cardinality(names) -> names ] :
        \A i, j \in 1..Cardinality(names) : i # j => order[i] # order[j] }

\* os.scandir(top): the names of the subdirectories and of the files
ListDir(top, probeNode) ==
    [ dirs  |-> Directories[top].dirs,
      files |-> { f \in Directories[top].files : Exists(NodeAt(Join(top, f), probeNode)) } ]

\* os.walk giving up at the first directory it cannot list
AbortWalk(rest) == << >>

\* os.walk with onerror=None when os.scandir(top) raises: top yields nothing
\* and the walk goes on with the directories still to list
OnWalkError(rest) == rest

(***************************************************************************)
(* The state                                                               *)
(***************************************************************************)
VARIABLES
    probe,       \* the state of the file /r/a.py (fixed from the start)
    config,      \* SecurityScanner.config
    issues,      \* SecurityValidator.issues of the scanner's validator
    pc,          \* "idle", or "walk" inside scan_directory's os.walk loop
    stack,       \* os.walk: the directories still to list, next first
    results,     \* scan_directory's results
    dispatched,  \* the paths handed to validate_file by the running call
    entered,     \* the directories os.walk has listed in the running call
    failed,      \* the directories os.walk could not list in the running call
    arg,         \* the running scan_directory call's argument
    ret,         \* the last call that returned, while no call runs
    memo,        \* an earlier validate_file result, remembered for comparison
    project,     \* core Project: tasks (in memory) and tasks_dir (the task files)
    controller,  \* core TaskController: current_task and task_history
    llm,         \* LLMTaskController: the TODO list and state['current_task']
    last         \* the last task operation that returned

vars ==
    << probe, config, issues, pc, stack, results, dispatched, entered, failed, arg, ret, memo,
       project, controller, llm, last >>

scanVars ==
    << probe, config, issues, pc, stack, results, dispatched, entered, failed, arg, ret, memo >>

taskVars == << project, controller, llm, last >>

\* None
NoTask == "None"

\* a task mapping without entries
NoTasks == [ id \in {} |-> NoTask ]

NoCall == [ op |-> "none", arg |-> NoTask, returned |-> FALSE ]

\* no project, controller or TODO list has been constructed
NoTaskState ==
    /\ project = [ tasks |-> NoTasks, tasks_dir |-> NoTasks ]
    /\ controller = [ current_task |-> NoTask, task_history |-> << >> ]
    /\ llm = [ todo |-> << >>, state |-> [ current_task |-> NoneInt ] ]
    /\ last = NoCall

\* the paths validate_file and scan_file are called with, and the directories
\* scan_directory is called with
FileArgs ==
    { "/r/a.py", "/r/venv/b.py", "/r/pkg/c.py", "/r/notes.md", "/r/missing.py", "/r/pkg" }

DirectoryArgs == { "/r", "pkg", "/r/venv", "/r/locked", "/r/nowhere", "/r/a.py" }

NoReturn ==
    [ op |-> "none", arg |-> "", node |-> Missing, raised |-> FALSE,
      issues |-> << >>, dicts |-> << >>, results |-> EmptyResults,
      ran |-> {}, dispatched |-> << >>, entered |-> {}, failed |-> {} ]

Init ==
    /\ probe \in ProbeStates
    /\ config \in Configs
    /\ issues = << >>
    /\ pc = "idle"
    /\ stack = << >>
    /\ results = EmptyResults
    /\ dispatched = << >>
    /\ entered = {}
    /\ failed = {}
    /\ arg = ""
    /\ ret = NoReturn
    /\ memo = NoMemo
    /\ NoTaskState

\* validate_file returns run to the caller
ValidateFileReturn(path, node, remember, run) ==
    /\ issues' = run.issues
    /\ ret' = [ NoReturn EXCEPT !.op = "validate_file", !.arg = path, !.node = node,
                                !.issues = run.issues, !.ran = run.ran,
                                !.dispatched = << path >> ]
    /\ memo' = IF remember THEN Remember(path, run.issues)
               ELSE Compare(memo, path, run.issues)

\* validator.validate_file(path); remember: the model keeps this call's result
\* for comparison with later ones (a call on /r/a.py only)
ValidateFileCall(path, remember) ==
    /\ pc = "idle"
    /\ remember => Resolve(path) = ProbePath
    /\ ValidateFileReturn(path, NodeAt(path, probe), remember,
                          ValidateFile(issues, path, NodeAt(path, probe)))
    /\ UNCHANGED taskVars
    /\ UNCHANGED << probe, config, pc, stack, results, dispatched, entered, failed, arg >>

\* return [issue.to_dict() for issue in issues]
ScanFileReturn(file_path, node, run) ==
    /\ issues' = run.issues
    /\ ret' = [ NoReturn EXCEPT !.op = "scan_file", !.arg = file_path,
                                !.node = node, !.issues = run.issues,
                                !.dicts = ToDicts(run.issues),
                                !.ran = run.ran,
                                !.dispatched = << file_path >> ]
    /\ memo' = Compare(memo, file_path, run.issues)

\* scan_file on the node found at file_path
ScanFileOn(file_path, node) ==
    IF ~Exists(node) \/ ~IsFile(node)
    THEN /\ ret' = [ NoReturn EXCEPT !.op = "scan_file", !.arg = file_path,
                                     !.node = node ]
         /\ UNCHANGED << issues, memo >>
    ELSE ScanFileReturn(file_path, node, ValidateFile(issues, file_path, node))

\* scanner.scan_file(file_path)
ScanFile(file_path) ==
    /\ pc = "idle"
    /\ ScanFileOn(file_path, NodeAt(file_path, probe))
    /\ UNCHANGED taskVars
    /\ UNCHANGED << probe, config, pc, stack, results, dispatched, entered, failed, arg >>

\* scanner.scan_directory(directory), to the first os.walk step: an invalid
\* root returns the empty results at once
ScanDirectory(directory) ==
    /\ pc = "idle"
    /\ LET directory_path == Resolve(directory)
           node == NodeAt(directory_path, probe)
       IN  IF ~Exists(node) \/ ~IsDir(node)
           THEN /\ ret' = [ NoReturn EXCEPT !.op = "scan_directory", !.arg = directory,
                                            !.node = node ]
                /\ UNCHANGED << pc, stack, arg >>
           ELSE /\ pc' = "walk"
                /\ stack' = << directory_path >>
                /\ arg' = directory
                /\ ret' = NoReturn
    /\ results' = EmptyResults
    /\ dispatched' = << >>
    /\ entered' = {}
    /\ failed' = {}
    /\ UNCHANGED taskVars
    /\ UNCHANGED << probe, config, issues, memo >>

\* the walk after one directory: the kept subdirectories are next, the state
\* is what the loop over the files left
WalkStep(root, kept, after) ==
    /\ stack' = [ n \in 1..Len(kept) |-> Join(root, kept[n]) ] \o Tail(stack)
    /\ entered' = entered \cup {root}
    /\ failed' = failed
    /\ issues' = after.issues
    /\ results' = after.results
    /\ dispatched' = after.dispatched
    /\ memo' = after.memo

\* a directory listed in some order
WalkListing(root, listing) ==
    \E dirs \in Orders(listing.dirs), files \in Orders(listing.files) :
        WalkStep(root, PruneDirs(config, dirs),
                 ScanFiles(config, root, files, probe,
                           [ issues |-> issues, results |-> results,
                             dispatched |-> dispatched, memo |-> memo ]))

\* one step of "for root, dirs, files in os.walk(directory_path)": the next
\* directory is listed, its subdirectories pruned, its files scanned
WalkDirectory ==
    /\ pc = "walk"
    /\ stack # << >>
    /\ IF Head(stack) \in Unlistable
       THEN /\ stack' = OnWalkError(Tail(stack))
            /\ failed' = failed \cup {Head(stack)}
            /\ UNCHANGED << issues, results, dispatched, entered, memo >>
       ELSE WalkListing(Head(stack), ListDir(Head(stack), probe))
    /\ UNCHANGED taskVars
    /\ UNCHANGED << probe, config, pc, arg, ret >>

\* return results
ScanDirectoryReturn ==
    /\ pc = "walk"
    /\ stack = << >>
    /\ pc' = "idle"
    /\ ret' = [ NoReturn EXCEPT !.op = "scan_directory", !.arg = arg,
                                !.node = Directory, !.results = results,
                                !.dispatched = dispatched, !.entered = entered,
                                !.failed = failed ]
    /\ UNCHANGED taskVars
    /\ UNCHANGED << probe, config, issues, stack, results, dispatched, entered, failed, arg,
                    memo >>

Next ==
    \/ \E path \in FileArgs, remember \in BOOLEAN : ValidateFileCall(path, remember)
    \/ \E path \in FileArgs : ScanFile(path)
    \/ \E directory \in DirectoryArgs : ScanDirectory(directory)
    \/ WalkDirectory
    \/ ScanDirectoryReturn

Spec == Init /\ [][Next]_vars

\* The scanner under configurations that supply exclusions: exclude_dirs
\* naming a directory or none, exclude_files alone and beside scan_extensions
\* and scan_patterns; /r/a.py holds a call of eval, nothing flagged, or is
\* missing.
ExclusionInit ==
    /\ probe \in { TextFile("eval(x)\n"), TextFile("x = 1 + 2\n"), Missing }
    /\ config \in { EmptyConfig,
                    [ exclude_dirs |-> {"pkg"} ],
                    [ exclude_dirs |-> {} ],
                    [ exclude_files |-> {"a.*"} ],
                    [ exclude_files |-> {"n*"}, scan_extensions |-> {".md", ".pyc"} ],
                    [ exclude_files |-> {"n*"}, scan_patterns |-> {"n*.md", "*.pyc"} ] }
    /\ issues = << >>
    /\ pc = "idle"
    /\ stack = << >>
    /\ results = EmptyResults
    /\ dispatched = << >>
    /\ entered = {}
    /\ failed = {}
    /\ arg = ""
    /\ ret = NoReturn
    /\ memo = NoMemo
    /\ NoTaskState

ExclusionSpec == ExclusionInit /\ [][Next]_vars

\* The validator by itself: /r/a.py holds any of the line scanner's samples,
\* the scanner has the default configuration, and validate_file and scan_file
\* are called on the files in any order.
LineScannerInit ==
    /\ probe \in { TextFile(Samples[n]) : n \in 1..NumLineSamples }
    /\ config = EmptyConfig
    /\ issues = << >>
    /\ pc = "idle"
    /\ stack = << >>
    /\ results = EmptyResults
    /\ dispatched = << >>
    /\ entered = {}
    /\ failed = {}
    /\ arg = ""
    /\ ret = NoReturn
    /\ memo = NoMemo
    /\ NoTaskState

LineScannerNext ==
    \/ \E path \in FileArgs, remember \in BOOLEAN : ValidateFileCall(path, remember)
    \/ \E path \in FileArgs : ScanFile(path)

LineScannerSpec == LineScannerInit /\ [][LineScannerNext]_vars

(***************************************************************************)
(* Properties of validate_file                                             *)
(***************************************************************************)
\* a regular file that open(...).read() reads as text
ReadableText(node) == node.kind = "file" /\ node.mode = "ok"

\* the Call nodes of content's tree that visit_Call flags: a direct call of a
\* denylisted free function, and a subprocess call passing shell=True
DenylistedCalls(content) ==
    { n \in 1..Len(AstParse(content).calls) :
        /\ AstParse(content).calls[n].func_type = "Name"
        /\ AstParse(content).calls[n].func_id \in {"eval", "exec", "execfile"} }

ShellTrueCalls(content) ==
    { n \in 1..Len(AstParse(content).calls) :
        /\ AstParse(content).calls[n].func_type = "Attribute"
        /\ AstParse(content).calls[n].func_attr \in {"Popen", "run", "call"}
        /\ AstParse(content).calls[n].value_id = "subprocess"
        /\ \E k \in 1..Len(AstParse(content).calls[n].keywords) :
              IsShellTrue(AstParse(content).calls[n].keywords[k]) }

\* the issues of a list that carry the given level, message and line
IssuesWith(list, level, message, line) ==
    { n \in 1..Len(list) : /\ list[n].level = level
                           /\ list[n].message = message
                           /\ list[n].line = line }

\* the issue the except Exception handler appends for the TypeError that
\* SecurityIssue(..., col_offset=...) raises in visit_Call
AnalyzerFault ==
    SecurityIssue(
        [ level        |-> HIGH,
          message      |-> "Error validating file: SecurityIssue.__init__() got an unexpected keyword argument 'col_offset'",
          code_snippet |-> "SecurityIssue.__init__() got an unexpected keyword argument 'col_offset'" ]).issue

\* C1: whenever validate_file has returned for a readable file that parses,
\* every direct call of eval, exec or execfile in it has, in the returned list,
\* a HIGH line-scanner issue and a CRITICAL syntax-analyzer issue on its line.
C1_DenylistedCallReportedTwice ==
    (ret.op = "validate_file" /\ ReadableText(ret.node) /\ AstParse(ret.node.content).ok) =>
        \A n \in DenylistedCalls(ret.node.content) :
            /\ IssuesWith(ret.issues, HIGH,
                          "Insecure function call: " \o AstParse(ret.node.content).calls[n].func_id,
                          AstParse(ret.node.content).calls[n].lineno) # {}
            /\ IssuesWith(ret.issues, CRITICAL,
                          "Use of dangerous function: " \o AstParse(ret.node.content).calls[n].func_id,
                          AstParse(ret.node.content).calls[n].lineno) # {}

\* validate_file has returned for the file holding eval(x): the line scanner's
\* issue is followed by the handler's issue, and nothing is CRITICAL
C1_EvalValidated ==
    /\ ret.op = "validate_file"
    /\ ret.node = TextFile("eval(x)\n")
    /\ Len(ret.issues) = 2
    /\ ret.issues[1].message = "Insecure function call: eval"
    /\ ret.issues[2] = AnalyzerFault
    /\ \A n \in 1..Len(ret.issues) : ret.issues[n].level # CRITICAL

\* C2: whenever validate_file has returned for the file with import os on
\* line 1 and subprocess.run(cmd, shell=True) on line 2, the list holds a HIGH
\* dangerous-import issue on line 1, a HIGH shell=True issue of the syntax
\* analyzer on line 2, and at least two issues.
C2_ImportAndShellFlagReported ==
    (ret.op = "validate_file"
        /\ ret.node = TextFile("import os\nsubprocess.run(cmd, shell=True)\n")) =>
        /\ IssuesWith(ret.issues, HIGH, "Dangerous import detected: import os", 1) # {}
        /\ IssuesWith(ret.issues, HIGH, "Potential shell injection with shell=True", 2) # {}
        /\ Len(ret.issues) >= 2

\* validate_file has returned for that file: the import is reported on line 1,
\* the only issues on line 2 are the line scanner's, and the last issue is the
\* handler's, without a line
C2_ShellFlagValidated ==
    /\ ret.op = "validate_file"
    /\ ret.node = TextFile("import os\nsubprocess.run(cmd, shell=True)\n")
    /\ IssuesWith(ret.issues, HIGH, "Dangerous import detected: import os", 1) # {}
    /\ \A n \in 1..Len(ret.issues) :
          ret.issues[n].line = 2 => ret.issues[n].message = "Insecure function call: subprocess.run"
    /\ ret.issues[Len(ret.issues)] = AnalyzerFault
    /\ ShellTrueCalls(ret.node.content) # {}

\* the issues of a list whose message starts with the given text
IssuesSaying(list, text) == { n \in 1..Len(list) : StartsAt(list[n].message, 1, text) }

\* C3: whenever validate_file has returned for a readable file that does not
\* parse, the list is the line scanner's issues for the content followed by
\* exactly one HIGH issue carrying the parser's message, line and column; the
\* syntax analyzer was not run and no issue of its kind is in the list.
C3_ParseErrorAfterLineIssues ==
    (ret.op = "validate_file" /\ ReadableText(ret.node) /\ ~AstParse(ret.node.content).ok) =>
        /\ Len(ret.issues) = Len(LineScan[ret.node.content]) + 1
        /\ SubSeq(ret.issues, 1, Len(ret.issues) - 1) = LineScan[ret.node.content]
        /\ ret.issues[Len(ret.issues)].level = HIGH
        /\ ret.issues[Len(ret.issues)].message
              = "Syntax error in file: " \o AstParse(ret.node.content).msg
        /\ ret.issues[Len(ret.issues)].line = AstParse(ret.node.content).lineno
        /\ ret.issues[Len(ret.issues)].column = AstParse(ret.node.content).offset
        /\ IssuesSaying(ret.issues, "Syntax error in file: ") = { Len(ret.issues) }
        /\ "ast" \notin ret.ran
        /\ IssuesSaying(ret.issues, "Use of dangerous function: ") = {}
        /\ IssuesSaying(ret.issues, "Potential shell injection with shell=True") = {}

\* validate_file has returned for a file with a dangerous import on line 1 and
\* an unclosed parenthesis on line 2
C3_UnclosedParenthesisValidated ==
    /\ ret.op = "validate_file"
    /\ ret.node = TextFile("import os\nx = (\n")
    /\ Len(ret.issues) = 2
    /\ ret.issues[1].message = "Dangerous import detected: import os"
    /\ ret.issues[2].message = "Syntax error in file: '(' was never closed"
    /\ ret.issues[2].line = 2
    /\ ret.issues[2].column = 5

\* C4: whenever validate_file has been called again on a file it was called on
\* before, with any calls on other files in between and the file unchanged, the
\* later call returned the same ordered list as the earlier one.
C4_RepeatedCallSameList == memo.again => memo.second = memo.first

\* /r/a.py was validated, then another file, then /r/a.py again, with issues
\* found in /r/a.py and issues of another file left in the validator meanwhile
C4_ValidatedTwice ==
    /\ memo.again
    /\ memo.between
    /\ Len(memo.first) >= 2
    /\ memo.second = memo.first

\* whether some line of a sample matches some compiled matcher of the catalog
CatalogMatches ==
    [ content \in { Samples[n] : n \in 1..Len(Samples) } |->
        \E i \in 1..Len(SplitLines(content)), c \in 1..Len(CompiledCategories) :
            \E k \in 1..CompiledCount(CompiledCategories[c]) :
                CompiledMatch(CompiledCategories[c], k, SplitLines(content)[i]) ]

\* C5: whenever validate_file has returned for a readable file that parses, in
\* which no line matches a catalog matcher and no call has a flagged shape, the
\* list returned is empty.
C5_NoMatchNoIssue ==
    ( /\ ret.op = "validate_file"
      /\ ReadableText(ret.node)
      /\ AstParse(ret.node.content).ok
      /\ ~CatalogMatches[ret.node.content]
      /\ DenylistedCalls(ret.node.content) = {}
      /\ ShellTrueCalls(ret.node.content) = {} ) => ret.issues = << >>

\* validate_file has returned for the file holding evaluate = 1: no matcher of
\* the catalog matches the line, nothing is called, and one issue is reported
C5_EvaluateValidated ==
    /\ ret.op = "validate_file"
    /\ ret.node = TextFile("evaluate = 1\n")
    /\ ~CatalogMatches[ret.node.content]
    /\ AstParse(ret.node.content).calls = << >>
    /\ Len(ret.issues) = 1
    /\ ret.issues[1].message = "Insecure function call: eval"

\* The phase an issue comes from, by the message only that phase writes: the
\* line scanner's four passes in the order they run (1..4), or what follows
\* them (5): the syntax analyzer, the parse-error handler, the outer handler.
Phase(issue) ==
    CASE StartsAt(issue.message, 1, "Dangerous import detected: ") -> 1
      [] StartsAt(issue.message, 1, "Insecure function call: ") -> 2
      [] StartsAt(issue.message, 1, "Potential shell injection vulnerability") -> 3
      [] StartsAt(issue.message, 1, "Potential hardcoded secret detected") -> 4
      [] StartsAt(issue.message, 1, "Use of dangerous function: ") -> 5
      [] StartsAt(issue.message, 1, "Potential shell injection with shell=True") -> 5
      [] StartsAt(issue.message, 1, "Syntax error in file: ") -> 5
      [] StartsAt(issue.message, 1, "Error validating file: ") -> 5

\* C6: in every list validate_file has returned, no issue of the syntax
\* analyzer and no parse-error issue comes before an issue of the line scanner,
\* and the line scanner's issues are in the order it finds them: pass by pass,
\* by ascending line inside a pass.
C6_LineIssuesFirst ==
    ret.op \in {"validate_file", "scan_file"} =>
        \A i, j \in 1..Len(ret.issues) :
            i < j => /\ Phase(ret.issues[i]) <= Phase(ret.issues[j])
                     /\ (Phase(ret.issues[i]) = Phase(ret.issues[j])
                            /\ Phase(ret.issues[i]) < 5)
                        => ret.issues[i].line <= ret.issues[j].line

\* validate_file has returned a list in which an issue of the line scanner is
\* followed by a parse-error issue
C6_LineIssueThenParseError ==
    /\ ret.op = "validate_file"
    /\ Len(ret.issues) >= 2
    /\ Phase(ret.issues[1]) < 5
    /\ StartsAt(ret.issues[Len(ret.issues)].message, 1, "Syntax error in file: ")
    /\ ret.issues[Len(ret.issues)].line # NoneInt

\* C7: whenever validate_file has returned for a path that could not be read
\* (missing, a directory, permission denied, not UTF-8), the list is exactly
\* one HIGH issue describing the failure and neither scan has run; and a list
\* of one issue returned without either scan having run means the read failed.
C7_ReadFailureOneIssue ==
    ret.op = "validate_file" =>
        /\ ~ReadableText(ret.node) =>
              /\ Len(ret.issues) = 1
              /\ ret.issues[1].level = HIGH
              /\ ret.issues[1].message
                    = "Error validating file: " \o ReadFile(ret.arg, ret.node).error
              /\ ret.ran = {}
        /\ (Len(ret.issues) = 1 /\ ret.ran = {}) => ReadFile(ret.arg, ret.node).raised

\* validate_file has returned for a file the process may not read, after a
\* call that left issues in the validator
C7_DeniedFileValidated ==
    /\ ret.op = "validate_file"
    /\ ret.node = UnreadableFile("denied")
    /\ Len(ret.issues) = 1
    /\ ret.ran = {}
    /\ memo.set
    /\ memo.first # << >>

(***************************************************************************)
(* Properties of scan_file and scan_directory                              *)
(***************************************************************************)
\* C8: whenever scan_file has returned, its result is the serialized result of
\* validate_file for the path; for a path that does not exist or is not a
\* regular file that is exactly one HIGH issue.
C8_ScanFileDelegates ==
    ret.op = "scan_file" =>
        /\ ret.dicts = ToDicts(ValidateFile(<< >>, ret.arg, ret.node).issues)
        /\ (~Exists(ret.node) \/ ~IsFile(ret.node)) =>
              (Len(ret.dicts) = 1 /\ ret.dicts[1].level = "HIGH")

\* scan_file has returned for a path that does not exist: the list is empty
\* and validate_file was not called
C8_MissingFileScanned ==
    /\ ret.op = "scan_file"
    /\ ret.node = Missing
    /\ ret.dicts = << >>
    /\ ret.dispatched = << >>
    /\ Len(ValidateFile(<< >>, ret.arg, ret.node).issues) = 1

\* C9: whenever scan_directory has returned, it has raised to its caller if
\* the root does not exist or is not a directory, and in no other case.
C9_InvalidRootRaises ==
    ret.op = "scan_directory" => (ret.raised <=> (~Exists(ret.node) \/ ~IsDir(ret.node)))

\* scan_directory has returned for a root that does not exist: nothing was
\* raised and the result is the empty mapping
C9_MissingRootScanned ==
    /\ ret.op = "scan_directory"
    /\ ret.node = Missing
    /\ ~ret.raised
    /\ ret.results = EmptyResults

\* path lies below root inside a directory whose name is in exclude_dirs
BelowExcluded(path, root, excluded) ==
    /\ StartsAt(path, 1, root \o "/")
    /\ \E d \in excluded :
          Contains(SubSeq(path, Len(root) + 1, Len(path)) \o "/", "/" \o d \o "/")

\* C10: during every scan_directory call and in what it returns, no directory
\* below the root whose name is in exclude_dirs has been listed, and no file
\* under such a directory has been handed to validate_file or is a key of the
\* results.
C10_ExcludedSubtreesPruned ==
    /\ pc = "walk" =>
          \A path \in entered \cup { dispatched[n] : n \in 1..Len(dispatched) }
                        \cup DOMAIN results :
              ~BelowExcluded(path, Resolve(arg), ExcludeDirs(config))
    /\ ret.op = "scan_directory" =>
          \A path \in ret.entered \cup { ret.dispatched[n] : n \in 1..Len(ret.dispatched) }
                        \cup DOMAIN ret.results :
              ~BelowExcluded(path, Resolve(ret.arg), ExcludeDirs(config))

\* scan_directory("/r") has returned under the default exclusions: the file
\* importing os in /r/pkg is reported, the file with the same content in
\* /r/venv and the file in /r/pkg/node_modules are not, and neither directory
\* was listed
C10_ExcludedFilesAbsent ==
    /\ ret.op = "scan_directory"
    /\ ret.arg = "/r"
    /\ config = EmptyConfig
    /\ "/r/pkg/c.py" \in DOMAIN ret.results
    /\ FixedFiles["/r/venv/b.py"] = FixedFiles["/r/pkg/c.py"]
    /\ "/r/venv/b.py" \notin DOMAIN ret.results
    /\ "/r/pkg/node_modules/d.py" \notin DOMAIN ret.results
    /\ ret.entered = {"/r", "/r/pkg"}

\* the files os.walk reaches from root in the tree on disk: those that exist
\* below root, outside every excluded directory and every directory that
\* cannot be listed
FilesWalked(root, excluded, probeNode) ==
    { path \in DOMAIN FixedFiles \cup {ProbePath} :
        /\ Exists(NodeAt(path, probeNode))
        /\ StartsAt(path, 1, root \o "/")
        /\ ~BelowExcluded(path, root, excluded)
        /\ \A locked \in Unlistable : ~StartsAt(path, 1, locked \o "/") }

\* the eligibility cascade: the built-in extension, else a configured
\* extension, else a configured glob on the name
CascadeEligible(configured, path) ==
    \/ PathSuffix(path) = ".py"
    \/ /\ "scan_extensions" \in DOMAIN configured
       /\ LowerStr(PathSuffix(path)) \in configured["scan_extensions"]
    \/ /\ "scan_patterns" \in DOMAIN configured
       /\ \E pattern \in configured["scan_patterns"] : fnmatch(PathName(path), pattern)

\* C11: whenever scan_directory has returned, the files it handed to
\* validate_file are the walked files not excluded by name that the cascade
\* makes eligible: extension .py, else an extension in scan_extensions, else a
\* name matching a glob of scan_patterns -- also when both are configured.
C11_EligibilityCascade ==
    ret.op = "scan_directory" =>
        \A path \in FilesWalked(Resolve(ret.arg), ExcludeDirs(config), probe) :
            ~IsExcludedFile(config, PathName(path)) =>
                (CascadeEligible(config, path)
                    <=> \E n \in 1..Len(ret.dispatched) : ret.dispatched[n] = path)

\* scan_directory("/r") has returned with scan_extensions and scan_patterns
\* both configured: /r/notes.md, whose extension is not listed and whose name
\* matches the glob, was not handed to validate_file
C11_GlobIgnoredBesideExtensions ==
    /\ ret.op = "scan_directory"
    /\ ret.arg = "/r"
    /\ DOMAIN config = {"scan_extensions", "scan_patterns"}
    /\ LowerStr(PathSuffix("/r/notes.md")) \notin config["scan_extensions"]
    /\ \E pattern \in config["scan_patterns"] : fnmatch("notes.md", pattern)
    /\ \A n \in 1..Len(ret.dispatched) : ret.dispatched[n] # "/r/notes.md"
    /\ "/r/pkg/c.py" \in DOMAIN ret.results

C13_FaultBecomesOneIssue ==
    ret.op = "validate_file" =>
        /\ ~ret.raised
        /\ Cardinality(IssuesSaying(ret.issues, "Error validating file: "))
              = IF \/ ReadFile(ret.arg, ret.node).raised
                   \/ /\ AstParse(ret.node.content).ok
                      /\ AnalyzerVisit(AstParse(ret.node.content).calls).raised
                THEN 1 ELSE 0
        /\ ( /\ ReadableText(ret.node)
             /\ AstParse(ret.node.content).ok
             /\ AnalyzerVisit(AstParse(ret.node.content).calls).raised ) =>
              /\ SubSeq(ret.issues, 1, Len(ret.issues) - 1) = LineScan[ret.node.content]
              /\ ret.issues[Len(ret.issues)].level = HIGH
              /\ ret.issues[Len(ret.issues)].message
                    = "Error validating file: "
                        \o AnalyzerVisit(AstParse(ret.node.content).calls).error

\* validate_file has returned for a file in which the syntax analyzer raised
\* after the line scanner had recorded two issues
C13_FaultAfterLineIssues ==
    /\ ret.op = "validate_file"
    /\ ReadableText(ret.node)
    /\ AstParse(ret.node.content).ok
    /\ AnalyzerVisit(AstParse(ret.node.content).calls).raised
    /\ Len(LineScan[ret.node.content]) = 2
    /\ Len(ret.issues) = 3

\* C14: whenever scan_directory has returned for a root that is a directory,
\* it has not raised, no file below a directory that could not be listed was
\* handed to validate_file, and the mapping is the one the tree without those
\* subtrees gives: its keys are the walked, eligible files with issues, each
\* with the serialized list of issues of that file.
C14_UnlistableSubtreeSkipped ==
    (ret.op = "scan_directory" /\ IsDir(ret.node)) =>
        /\ ~ret.raised
        /\ \A n \in 1..Len(ret.dispatched), locked \in Unlistable :
              ~StartsAt(ret.dispatched[n], 1, locked \o "/")
        /\ DOMAIN ret.results =
              { path \in FilesWalked(Resolve(ret.arg), ExcludeDirs(config), probe) :
                  /\ ~IsExcludedFile(config, PathName(path))
                  /\ IsEligible(config, path)
                  /\ ValidateFile(<< >>, path, NodeAt(path, probe)).issues # << >> }
        /\ \A path \in DOMAIN ret.results :
              ret.results[path]
                  = ToDicts(ValidateFile(<< >>, path, NodeAt(path, probe)).issues)

\* scan_directory("/r") has returned after os.walk failed to list /r/locked:
\* /r/pkg/c.py is reported, nothing below /r/locked is
C14_WalkedOnAfterFailure ==
    /\ ret.op = "scan_directory"
    /\ ret.arg = "/r"
    /\ ret.failed = {"/r/locked"}
    /\ ~ret.raised
    /\ "/r/pkg/c.py" \in DOMAIN ret.results
    /\ "/r/locked/e.py" \notin DOMAIN ret.results

\* C15: during every scan_directory call and in what it returns, the value
\* under each key is the serialized list validate_file gives for that file
\* alone, starting from a validator that holds no issue -- whatever was
\* validated before it and in whatever order the walk listed the files.
C15_PerFileIndependent ==
    /\ \A path \in DOMAIN results :
          results[path] = ToDicts(ValidateFile(<< >>, path, NodeAt(path, probe)).issues)
    /\ ret.op = "scan_directory" =>
          \A path \in DOMAIN ret.results :
              ret.results[path]
                  = ToDicts(ValidateFile(<< >>, path, NodeAt(path, probe)).issues)

\* scan_directory("/r") has returned three files with issues, /r/a.py
\* validated right after /r/notes.md on the same validator
C15_ThreeFilesOneValidator ==
    /\ ret.op = "scan_directory"
    /\ ret.arg = "/r"
    /\ Len(ret.dispatched) = 3
    /\ ret.dispatched[1] = "/r/notes.md"
    /\ ret.dispatched[2] = "/r/a.py"
    /\ DOMAIN ret.results = { ret.dispatched[n] : n \in 1..3 }
    /\ ret.results["/r/a.py"] # ret.results["/r/notes.md"]

(***************************************************************************)
(* Properties of the line scanner                                          *)
(***************************************************************************)
\* Per sample, every (line, matcher) pair that matches, over all the
\* categories of the catalog, as triples of the line's number, the category
\* and the matcher's position in it; a comment line (line.strip() starting
\* with #) has none for the insecure functions.
CatalogHits ==
    [ content \in { Samples[n] : n \in 1..Len(Samples) } |->
        { t \in (1..Len(SplitLines(content)))
                  \X { CompiledCategories[c] : c \in 1..Len(CompiledCategories) }
                  \X (1..Len(INSECURE_FUNCTIONS)) :
            /\ t[3] <= CompiledCount(t[2])
            /\ CompiledMatch(t[2], t[3], SplitLines(content)[t[1]])
            /\ t[2] = "insecure_functions"
                  => ~StartsAt(Strip(SplitLines(content)[t[1]]), 1, "#") } ]

\* per sample, the lines some matcher of a category matches
CategoryLines(category) ==
    [ content \in { Samples[n] : n \in 1..Len(Samples) } |->
        { h[1] : h \in { t \in CatalogHits[content] : t[2] = category } } ]

\* the lines for which a list holds an issue of one of the phases and of one
\* of the levels
IssueLines(list, phases, levels) ==
    { list[n].line : n \in { m \in 1..Len(list) :
                               Phase(list[m]) \in phases /\ list[m].level \in levels } }

\* C16: whenever validate_file has returned for a readable file, for every
\* line and every severity the number of line-scanner issues it reports on that
\* line with that severity equals the number of (line, matcher) pairs, over
\* all six categories, whose matcher matches the line and whose category has
\* that severity -- one issue per matching pair, none merged, none extra.
C16_OneIssuePerMatchingPair ==
    (ret.op = "validate_file" /\ ReadableText(ret.node)) =>
        LET CategoryLevel(category) ==
                CASE category = "insecure_functions" -> HIGH
                  [] category = "dangerous_imports"  -> HIGH
                  [] category = "shell_injection"    -> CRITICAL
                  [] category = "hardcoded_secrets"  -> HIGH
                  [] category = "sql_injection"      -> HIGH
                  [] category = "xss"                -> MEDIUM
        IN  \A i \in 1..Len(SplitLines(ret.node.content)),
               level \in {MEDIUM, HIGH, CRITICAL} :
                Cardinality({ n \in 1..Len(ret.issues) :
                                /\ Phase(ret.issues[n]) < 5
                                /\ ret.issues[n].line = i
                                /\ ret.issues[n].level = level })
                    = Cardinality({ h \in CatalogHits[ret.node.content] :
                                      h[1] = i /\ CategoryLevel(h[2]) = level })

\* validate_file has returned for os.system(a & b): four matchers of two
\* categories match line 1 and four issues are reported on it, one HIGH and
\* three CRITICAL
C16_TwoCategoriesOneLine ==
    /\ ret.op = "validate_file"
    /\ ret.node = TextFile("os.system(a & b)\n")
    /\ Cardinality(CatalogHits[ret.node.content]) = 4
    /\ { h[2] : h \in CatalogHits[ret.node.content] }
          = {"insecure_functions", "shell_injection"}
    /\ Len(ret.issues) = 4
    /\ \A n \in 1..4 : Phase(ret.issues[n]) < 5 /\ ret.issues[n].line = 1
    /\ Cardinality({ n \in 1..4 : ret.issues[n].level = CRITICAL }) = 3

\* The lines of content by position: for every position at which a line
\* begins (the first, and the one after every newline), the pair of the line's
\* 1-based number -- one more than the newlines before it -- and its text, up
\* to the next newline.
LinesByPosition(content) ==
    { << Cardinality({ q \in 1..(p - 1) : Char(content, q) = "\n" }) + 1,
         SubSeq(content, p,
                (CHOOSE e \in p..(Len(content) + 1) :
                    /\ e = Len(content) + 1 \/ Char(content, e) = "\n"
                    /\ \A k \in p..(e - 1) : Char(content, k) # "\n") - 1) >> :
        p \in { q \in 1..(Len(content) + 1) : q = 1 \/ Char(content, q - 1) = "\n" } }

\* per sample, the lines matching a dangerous-import pattern: number and text
DangerousImportLines ==
    [ content \in { Samples[n] : n \in 1..Len(Samples) } |->
        { h \in LinesByPosition(content) :
            \E k \in 1..Len(DANGEROUS_IMPORTS) :
                MatchDangerousImport(DANGEROUS_IMPORTS[k], h[2]) } ]

\* C17: whenever validate_file or scan_file has returned for a readable file,
\* every line of it that matches a dangerous-import pattern has an issue
\* "Dangerous import detected" whose line field is the line's 1-based position
\* (one more than the newlines before it) and whose snippet is the line, and
\* every such issue reported is for such a line at that position.
C17_ImportLinePosition ==
    (ret.op \in {"validate_file", "scan_file"} /\ ReadableText(ret.node)) =>
        /\ \A h \in DangerousImportLines[ret.node.content] :
              \E n \in 1..Len(ret.issues) :
                  /\ Phase(ret.issues[n]) = 1
                  /\ ret.issues[n].line = h[1]
                  /\ ret.issues[n].code_snippet = h[2]
                  /\ ret.issues[n].message = "Dangerous import detected: " \o Strip(h[2])
        /\ \A n \in 1..Len(ret.issues) :
              Phase(ret.issues[n]) = 1 =>
                  << ret.issues[n].line, ret.issues[n].code_snippet >>
                      \in DangerousImportLines[ret.node.content]

\* validate_file has returned for a file whose third line, after an empty
\* one, is import pickle: the one issue reported carries line 3
C17_ImportOnThirdLine ==
    /\ ret.op = "validate_file"
    /\ ret.node = TextFile("x = 1\n\nimport pickle\n")
    /\ DangerousImportLines[ret.node.content] = { << 3, "import pickle" >> }
    /\ Len(ret.issues) = 1
    /\ ret.issues[1].message = "Dangerous import detected: import pickle"
    /\ ret.issues[1].line = 3

\* C18: whenever validate_file has returned for a readable file, the lines
\* it reports an insecure-function issue for are exactly the lines that are no
\* comment lines and hold a denylisted name followed by a call parenthesis.
C18_InsecureFunctionIffCalled ==
    (ret.op = "validate_file" /\ ReadableText(ret.node)) =>
        IssueLines(ret.issues, {2}, {HIGH})
            = CategoryLines("insecure_functions")[ret.node.content]

\* validate_file has returned for x = compile_flags: no denylisted name is
\* called on the line, and an insecure-function issue names compile
C18_CompileFlagsValidated ==
    /\ ret.op = "validate_file"
    /\ ret.node = TextFile("x = compile_flags\n")
    /\ CategoryLines("insecure_functions")[ret.node.content] = {}
    /\ Len(ret.issues) = 1
    /\ ret.issues[1].message = "Insecure function call: compile"
    /\ ret.issues[1].line = 1

\* C19: whenever validate_file has returned for a readable file, every line
\* an XSS matcher matches has a MEDIUM issue reported for it and every line a
\* SQL-injection matcher matches has a HIGH issue reported for it.
C19_SqlAndXssReported ==
    (ret.op = "validate_file" /\ ReadableText(ret.node)) =>
        /\ CategoryLines("xss")[ret.node.content]
              \subseteq IssueLines(ret.issues, 1..5, {MEDIUM})
        /\ CategoryLines("sql_injection")[ret.node.content]
              \subseteq IssueLines(ret.issues, 1..5, {HIGH})

\* validate_file has returned for the file holding a javascript: URL: an XSS
\* matcher of the catalog matches line 1, and the list returned is empty
C19_JavascriptUrlValidated ==
    /\ ret.op = "validate_file"
    /\ ret.node = TextFile("url = 'javascript:go'\n")
    /\ CategoryLines("xss")[ret.node.content] = {1}
    /\ ret.issues = << >>

\* the line holds a quoted literal of at least n characters
HasQuotedValue(line, n) ==
    \E q \in 1..Len(line) : \E z \in (q + n + 1)..Len(line) :
        /\ Char(line, q) \in Quotes
        /\ Char(line, z) \in Quotes
        /\ NoneOf(line, q + 1, z, Quotes)

\* per sample, the lines holding a quoted literal of at least MinSecretLen
\* characters
LongValueLines ==
    [ content \in { Samples[n] : n \in 1..Len(Samples) } |->
        { i \in 1..Len(SplitLines(content)) :
            HasQuotedValue(SplitLines(content)[i], MinSecretLen) } ]

\* C20: whenever validate_file has returned for a readable file, every line
\* that a hardcoded-secret matcher matches without regard to letter case and
\* that holds a quoted value of at least 20 characters has a HIGH
\* hardcoded-secret issue, and every line that has one holds a quoted value of
\* at least 20 characters.
C20_SecretsAnyCaseLongValue ==
    (ret.op = "validate_file" /\ ReadableText(ret.node)) =>
        /\ (CategoryLines("hardcoded_secrets")[ret.node.content]
                \cap LongValueLines[ret.node.content])
              \subseteq IssueLines(ret.issues, {4}, {HIGH})
        /\ IssueLines(ret.issues, {4}, {HIGH}) \subseteq LongValueLines[ret.node.content]

\* validate_file has returned for the upper-case AWS secret key assigned a
\* quoted value of 22 characters: the secret matcher matches the line when
\* case is ignored, and the list returned is empty
C20_UpperCaseAwsKeyValidated ==
    /\ ret.op = "validate_file"
    /\ ret.node = TextFile("AWS_SECRET_ACCESS_KEY = 'abcdefghijklmnopqrstuv'\n")
    /\ CategoryLines("hardcoded_secrets")[ret.node.content] = {1}
    /\ LongValueLines[ret.node.content] = {1}
    /\ ret.issues = << >>

(***************************************************************************)
(* Properties of the serialized results                                    *)
(***************************************************************************)
\* C21: whatever scan_file has returned is, entry by entry and in the same
\* order, the list the validator returned with every issue turned into a
\* mapping of exactly the six keys level, message, line, column, code_snippet
\* and fix_suggestion, level being the name of the issue's severity; and every
\* entry of every list scan_directory holds or has returned is such a mapping
\* with a level among LOW, MEDIUM, HIGH and CRITICAL.
C21_SerializedIssues ==
    LET Keys == {"level", "message", "line", "column", "code_snippet", "fix_suggestion"}
        Names == {"LOW", "MEDIUM", "HIGH", "CRITICAL"}
        Serialized(found) == \A n \in 1..Len(found) :
                                 DOMAIN found[n] = Keys /\ found[n].level \in Names
    IN  /\ ret.op = "scan_file" =>
            /\ Len(ret.dicts) = Len(ret.issues)
            /\ Serialized(ret.dicts)
            /\ \A n \in 1..Len(ret.issues) :
                  /\ ret.dicts[n].level
                        = (CASE ret.issues[n].level = LOW -> "LOW"
                             [] ret.issues[n].level = MEDIUM -> "MEDIUM"
                             [] ret.issues[n].level = HIGH -> "HIGH"
                             [] ret.issues[n].level = CRITICAL -> "CRITICAL")
                  /\ \A key \in Keys \ {"level"} : ret.dicts[n][key] = ret.issues[n][key]
        /\ \A path \in DOMAIN results : Serialized(results[path])
        /\ ret.op = "scan_directory" =>
              \A path \in DOMAIN ret.results : Serialized(ret.results[path])

\* scan_directory("/r") has returned two CRITICAL entries for /r/a.py, both
\* for its line 1, and a HIGH entry for /r/pkg/c.py
C21_TwoLevelsReturned ==
    /\ ret.op = "scan_directory"
    /\ ret.arg = "/r"
    /\ {"/r/a.py", "/r/pkg/c.py"} \subseteq DOMAIN ret.results
    /\ Len(ret.results["/r/a.py"]) = 2
    /\ \A n \in 1..2 : /\ ret.results["/r/a.py"][n].level = "CRITICAL"
                       /\ ret.results["/r/a.py"][n].line = 1
    /\ ret.results["/r/pkg/c.py"][1].level = "HIGH"

\* C22: whenever validate_file has returned for a readable file, each of the
\* line scanner's four passes has reported, for every line, as many issues as
\* matchers of its category in the catalog match the line -- what a pass that
\* runs the catalog's built matchers reports.
C22_PassesUseCatalogMatchers ==
    (ret.op = "validate_file" /\ ReadableText(ret.node)) =>
        \A i \in 1..Len(SplitLines(ret.node.content)), pass \in 1..4 :
            Cardinality({ n \in 1..Len(ret.issues) :
                            Phase(ret.issues[n]) = pass /\ ret.issues[n].line = i })
                = Cardinality({ h \in CatalogHits[ret.node.content] :
                                  /\ h[1] = i
                                  /\ h[2] = (CASE pass = 1 -> "dangerous_imports"
                                               [] pass = 2 -> "insecure_functions"
                                               [] pass = 3 -> "shell_injection"
                                               [] pass = 4 -> "hardcoded_secrets") })

\* validate_file has returned for a capitalised Bearer token: the catalog's
\* fourth hardcoded-secret matcher matches the line, and the pass for hardcoded
\* secrets has reported nothing
C22_BearerTokenValidated ==
    /\ ret.op = "validate_file"
    /\ ret.node = TextFile("h = 'Bearer abcdefghijklmnopqrstuv'\n")
    /\ CatalogHits[ret.node.content] = { << 1, "hardcoded_secrets", 4 >> }
    /\ IssueLines(ret.issues, {4}, {HIGH}) = {}

(***************************************************************************)
(* Properties of the exclusions                                            *)
(***************************************************************************)
\* C23: during every scan_directory call and in what it returns, no file
\* whose name matches a glob of the scanner's exclude_files has been handed to
\* validate_file or is a key of the results, whatever its extension and
\* whatever scan_extensions and scan_patterns allow.
C23_ExcludedFilesNeverDispatched ==
    LET Excluded(paths) ==
            { path \in paths :
                \E pattern \in ExcludeFiles(config) : fnmatch(PathName(path), pattern) }
    IN  /\ pc = "walk" =>
              Excluded({ dispatched[n] : n \in 1..Len(dispatched) }
                           \cup DOMAIN results) = {}
        /\ ret.op = "scan_directory" =>
              Excluded({ ret.dispatched[n] : n \in 1..Len(ret.dispatched) }
                           \cup DOMAIN ret.results) = {}

\* scan_directory("/r") has returned with exclude_files {"n*"} beside
\* scan_extensions {".md", ".pyc"}: /r/notes.md, which its extension makes
\* eligible and which holds a call of eval, was not handed to validate_file,
\* while /r/a.py and /r/pkg/c.pyc were
C23_ExcludedDespiteExtension ==
    /\ ret.op = "scan_directory"
    /\ ret.arg = "/r"
    /\ config = [ exclude_files |-> {"n*"}, scan_extensions |-> {".md", ".pyc"} ]
    /\ CascadeEligible(config, "/r/notes.md")
    /\ { ret.dispatched[n] : n \in 1..Len(ret.dispatched) }
          = {"/r/a.py", "/r/pkg/c.py", "/r/pkg/c.pyc"}
    /\ "/r/notes.md" \notin DOMAIN ret.results

\* C26: whenever scan_directory has returned, the files it handed to
\* validate_file are the eligible files found below the root outside the
\* excluded directories and not excluded by name, where the excluded
\* directories are exactly those of exclude_dirs when the configuration has
\* the key and exactly .git, __pycache__, venv, env and node_modules when it
\* has not, and the excluded names are exactly the globs of exclude_files when
\* the configuration has the key and exactly *.pyc, *.pyo, *.pyd, *.so and
\* *.dll when it has not.
C26_DefaultsReplacedNotMerged ==
    LET Dirs  == IF "exclude_dirs" \in DOMAIN config THEN config["exclude_dirs"]
                 ELSE {".git", "__pycache__", "venv", "env", "node_modules"}
        Globs == IF "exclude_files" \in DOMAIN config THEN config["exclude_files"]
                 ELSE {"*.pyc", "*.pyo", "*.pyd", "*.so", "*.dll"}
    IN  ret.op = "scan_directory" =>
            { ret.dispatched[n] : n \in 1..Len(ret.dispatched) }
                = { path \in FilesWalked(Resolve(ret.arg), Dirs, probe) :
                      /\ IsEligible(config, path)
                      /\ \A pattern \in Globs : ~fnmatch(PathName(path), pattern) }

\* scan_directory("/r") has returned with exclude_dirs {"pkg"} supplied:
\* /r/venv, excluded by default, was listed and its file reported, and /r/pkg
\* was not listed
C26_VenvTraversedWhenNotNamed ==
    /\ ret.op = "scan_directory"
    /\ ret.arg = "/r"
    /\ config = [ exclude_dirs |-> {"pkg"} ]
    /\ ret.entered = {"/r", "/r/venv"}
    /\ "/r/venv/b.py" \in DOMAIN ret.results
    /\ "/r/pkg/c.py" \notin DOMAIN ret.results

(***************************************************************************)
(* Properties of the syntax analyzer                                       *)
(***************************************************************************)
\* C24: whenever validate_file has returned for a readable file that parses
\* and that holds no call of the exact shapes -- the bare name eval, exec or
\* execfile called, or Popen, run or call on the name subprocess with the
\* keyword shell given the constant True -- the list returned is the line
\* scanner's alone: the syntax analyzer has added nothing and has not failed;
\* and an issue of the syntax analyzer's kinds is only ever reported on the
\* line of a call of an exact shape.
C24_AnalyzerFiresOnExactShapes ==
    (ret.op = "validate_file" /\ ReadableText(ret.node) /\ AstParse(ret.node.content).ok) =>
        LET calls == AstParse(ret.node.content).calls
            Exact == { c \in 1..Len(calls) :
                         \/ /\ calls[c].func_type = "Name"
                            /\ calls[c].func_id \in {"eval", "exec", "execfile"}
                         \/ /\ calls[c].func_type = "Attribute"
                            /\ calls[c].value_type = "Name"
                            /\ calls[c].value_id = "subprocess"
                            /\ calls[c].func_attr \in {"Popen", "run", "call"}
                            /\ \E k \in 1..Len(calls[c].keywords) :
                                  /\ calls[c].keywords[k].arg = "shell"
                                  /\ calls[c].keywords[k].value_type = "Constant"
                                  /\ calls[c].keywords[k].value = "True" }
        IN  /\ Exact = {} => ret.issues = LineScan[ret.node.content]
            /\ \A n \in IssuesSaying(ret.issues, "Use of dangerous function: ")
                          \cup IssuesSaying(ret.issues,
                                            "Potential shell injection with shell=True") :
                  \E c \in Exact : calls[c].lineno = ret.issues[n].line

\* validate_file has returned for subprocess.run(cmd, shell=False): the
\* syntax analyzer ran, and the one issue returned is the line scanner's
C24_ShellFalseValidated ==
    /\ ret.op = "validate_file"
    /\ ret.node = TextFile("subprocess.run(cmd, shell=False)\n")
    /\ "ast" \in ret.ran
    /\ Len(ret.issues) = 1
    /\ ret.issues[1].message = "Insecure function call: subprocess.run"

\* C25: a list returned by validate_file holds, after any later calls on the
\* same validator for the same or other files, exactly what it held when it
\* was returned.
C25_ReturnedListOwnedByCaller == memo.set => memo.held = memo.first

\* a non-empty list was returned for /r/a.py, a later call on another file
\* left the validator with different issues, and the list is as it was
C25_EarlierListKeptAfterOtherFile ==
    /\ memo.set
    /\ memo.between
    /\ ~memo.again
    /\ memo.first # << >>
    /\ issues # memo.first
    /\ memo.held = memo.first

(***************************************************************************)
(* core: Task, Project and TaskController                                  *)
(***************************************************************************)
\* TaskStatus, by auto()
TODO == 1
IN_PROGRESS == 2
IN_REVIEW == 3
COMPLETED == 4
BLOCKED == 5

\* the names of the TaskStatus members, by value
TaskStatusNames == << "TODO", "IN_PROGRESS", "IN_REVIEW", "COMPLETED", "BLOCKED" >>

\* the task ids the operations are called with
TaskIds == { "t1", "t2", "t3" }

\* the longest task_history the model follows
MaxHistory == 3

\* a Task, as far as the operations read it
Task(id, status) == [ id |-> id, status |-> status ]

\* Task.to_dict
Task_to_dict(task) == [ id |-> task.id, status |-> TaskStatusNames[task.status] ]

\* what a task file holds when json.dump raised after open(task_file, 'w')
Truncated == [ id |-> "", status |-> "" ]

\* json.load and Task.from_dict: TaskStatus[data['status']] raises for a name
\* that is no member (json.load raises on a truncated file)
Task_from_dict(data) ==
    IF \E status \in DOMAIN TaskStatusNames : TaskStatusNames[status] = data.status
    THEN [ ok |-> TRUE,
           task |-> Task(data.id, CHOOSE status \in DOMAIN TaskStatusNames :
                                      TaskStatusNames[status] = data.status) ]
    ELSE [ ok |-> FALSE, task |-> Task(data.id, TODO) ]

\* del mapping[key]
Remove(mapping, key) == [ k \in DOMAIN mapping \ {key} |-> mapping[k] ]

\* Project.get_task: the task in memory, else the task file loaded and kept
Project_get_task(p, task_id) ==
    IF task_id \in DOMAIN p.tasks
    THEN [ found |-> TRUE, project |-> p ]
    ELSE IF task_id \in DOMAIN p.tasks_dir /\ Task_from_dict(p.tasks_dir[task_id]).ok
    THEN [ found |-> TRUE,
           project |-> [ p EXCEPT !.tasks = Store(@, task_id,
                                                  Task_from_dict(p.tasks_dir[task_id]).task) ] ]
    ELSE [ found |-> FALSE, project |-> p ]

\* Project._save_task; outcome: what open and json.dump did
Project_save_task(p, task, outcome) ==
    CASE outcome = "written" ->
           [ returned |-> TRUE,
             project |-> [ p EXCEPT !.tasks_dir = Store(@, task.id, Task_to_dict(task)) ] ]
      [] outcome = "open_failed" ->
           [ returned |-> FALSE, project |-> p ]
      [] outcome = "dump_failed" ->
           [ returned |-> FALSE,
             project |-> [ p EXCEPT !.tasks_dir = Store(@, task.id, Truncated) ] ]

WriteOutcomes == { "written", "open_failed", "dump_failed" }

\* the ids whose task file was written in full and not removed since
Persisted(before, op, task_id, result) ==
    IF op = "delete_task"
    THEN IF task_id \in DOMAIN result.project.tasks_dir
         THEN before ELSE before \ {task_id}
    ELSE IF result.returned THEN before \cup {task_id} ELSE before

\* a Project operation returns result to the caller
ProjectReturn(op, task_id, result) ==
    /\ project' = result.project
    /\ last' = [ op |-> op, arg |-> task_id, returned |-> result.returned,
                 before |-> project.tasks,
                 persisted |-> Persisted(last.persisted, op, task_id, result) ]
    /\ UNCHANGED << controller, llm >>
    /\ UNCHANGED scanVars

\* project.add_task(task)
Project_add_task(task, outcome) ==
    /\ pc = "idle"
    /\ ProjectReturn("add_task", task.id,
           IF task.id \in DOMAIN project.tasks
           THEN [ returned |-> FALSE, project |-> project ]
           ELSE Project_save_task([ project EXCEPT !.tasks = Store(@, task.id, task) ],
                                  task, outcome))

\* project.update_task(task)
Project_update_task(task, outcome) ==
    /\ pc = "idle"
    /\ ProjectReturn("update_task", task.id,
           IF task.id \notin DOMAIN project.tasks
           THEN [ returned |-> FALSE, project |-> project ]
           ELSE Project_save_task([ project EXCEPT !.tasks = Store(@, task.id, task) ],
                                  task, outcome))

\* project.delete_task(task_id); unlinked: task_file.unlink() did not raise
Project_delete_task(task_id, unlinked) ==
    /\ pc = "idle"
    /\ ProjectReturn("delete_task", task_id,
           IF task_id \notin DOMAIN project.tasks
           THEN [ returned |-> FALSE, project |-> project ]
           ELSE IF task_id \notin DOMAIN project.tasks_dir
           THEN [ returned |-> TRUE,
                  project |-> [ project EXCEPT !.tasks = Remove(@, task_id) ] ]
           ELSE IF unlinked
           THEN [ returned |-> TRUE,
                  project |-> [ project EXCEPT !.tasks = Remove(@, task_id),
                                               !.tasks_dir = Remove(@, task_id) ] ]
           ELSE [ returned |-> FALSE,
                  project |-> [ project EXCEPT !.tasks = Remove(@, task_id) ] ])

\* project.get_task(task_id)
ProjectGetTask(task_id) ==
    /\ pc = "idle"
    /\ ProjectReturn("get_task", task_id,
           [ returned |-> Project_get_task(project, task_id).found,
             project |-> Project_get_task(project, task_id).project ])

\* the tasks the Project operations are called with
TaskArgs == { Task(id, status) : id \in { "t1", "t2" }, status \in { TODO, IN_PROGRESS } }

\* Project(name, root_dir) on a new directory
ProjectInit ==
    /\ probe = Missing /\ config = EmptyConfig
    /\ issues = << >> /\ pc = "idle" /\ stack = << >> /\ results = EmptyResults
    /\ dispatched = << >> /\ entered = {} /\ failed = {} /\ arg = ""
    /\ ret = NoReturn /\ memo = NoMemo
    /\ project = [ tasks |-> NoTasks, tasks_dir |-> NoTasks ]
    /\ controller = [ current_task |-> NoTask, task_history |-> << >> ]
    /\ llm = [ todo |-> << >>, state |-> [ current_task |-> NoneInt ] ]
    /\ last = [ op |-> "none", arg |-> NoTask, returned |-> FALSE,
                before |-> NoTasks, persisted |-> {} ]

ProjectNext ==
    \/ \E task \in TaskArgs, outcome \in WriteOutcomes : Project_add_task(task, outcome)
    \/ \E task \in TaskArgs, outcome \in WriteOutcomes : Project_update_task(task, outcome)
    \/ \E task_id \in { "t1", "t2" }, unlinked \in BOOLEAN : Project_delete_task(task_id, unlinked)
    \/ \E task_id \in { "t1", "t2" } : ProjectGetTask(task_id)

ProjectSpec == ProjectInit /\ [][ProjectNext]_vars

\* A TaskController operation returns. Between start_task and complete_task
\* calls project.tasks is written by get_task alone, which keeps the first
\* Task object of an id, so the Task objects the controller holds are named
\* by their ids.
ControllerReturn(op, task_id, returned) ==
    /\ last' = [ op |-> op, arg |-> task_id, returned |-> returned,
                 before |-> project.tasks, persisted |-> last.persisted ]
    /\ UNCHANGED llm
    /\ UNCHANGED scanVars

\* controller.start_task(task_id)
TaskController_start_task(task_id) ==
    LET got == Project_get_task(project, task_id)
        current == controller.current_task
    IN  /\ pc = "idle"
        /\ IF ~got.found
           THEN /\ ControllerReturn("start_task", task_id, FALSE)
                /\ UNCHANGED << project, controller >>
           ELSE IF current # NoTask /\ got.project.tasks[current].status = IN_PROGRESS
           THEN /\ ControllerReturn("start_task", task_id, FALSE)
                /\ project' = got.project
                /\ UNCHANGED controller
           ELSE /\ ControllerReturn("start_task", task_id, TRUE)
                /\ controller' = [ controller EXCEPT !.current_task = task_id ]
                /\ project' = [ got.project EXCEPT !.tasks[task_id].status = IN_PROGRESS ]

\* controller.complete_task()
TaskController_complete_task ==
    /\ pc = "idle"
    /\ Len(controller.task_history) < MaxHistory
    /\ IF controller.current_task = NoTask
       THEN /\ ControllerReturn("complete_task", NoTask, FALSE)
            /\ UNCHANGED << project, controller >>
       ELSE /\ ControllerReturn("complete_task", controller.current_task, TRUE)
            /\ project' = [ project EXCEPT
                              !.tasks[controller.current_task].status = COMPLETED ]
            /\ controller' = [ current_task |-> NoTask,
                               task_history |-> Append(controller.task_history,
                                                       controller.current_task) ]

\* TaskController(project, llm, security_validator) on a project with t1 in
\* memory and saved, and a task file of t2 that get_task has not loaded
ControllerInit ==
    /\ probe = Missing /\ config = EmptyConfig
    /\ issues = << >> /\ pc = "idle" /\ stack = << >> /\ results = EmptyResults
    /\ dispatched = << >> /\ entered = {} /\ failed = {} /\ arg = ""
    /\ ret = NoReturn /\ memo = NoMemo
    /\ \E first \in { TODO, IN_REVIEW, BLOCKED },
          second \in { "TODO", "BLOCKED", "DONE", "" } :
          project = [ tasks |-> Store(NoTasks, "t1", Task("t1", first)),
                      tasks_dir |-> Store(Store(NoTasks, "t1", Task_to_dict(Task("t1", first))),
                                          "t2", [ id |-> "t2", status |-> second ]) ]
    /\ controller = [ current_task |-> NoTask, task_history |-> << >> ]
    /\ llm = [ todo |-> << >>, state |-> [ current_task |-> NoneInt ] ]
    /\ last = [ op |-> "none", arg |-> NoTask, returned |-> FALSE,
                before |-> NoTasks, persisted |-> {} ]

ControllerNext ==
    \/ \E task_id \in TaskIds : TaskController_start_task(task_id)
    \/ TaskController_complete_task

ControllerSpec == ControllerInit /\ [][ControllerNext]_vars

\* C27: every task in task_history has the status COMPLETED, and the task
\* current_task refers to is not in task_history.
C27_HistoryCompletedCurrentNotInHistory ==
    /\ \A i \in 1..Len(controller.task_history) :
          project.tasks[controller.task_history[i]].status = COMPLETED
    /\ controller.current_task # NoTask =>
          \A i \in 1..Len(controller.task_history) :
             controller.task_history[i] # controller.current_task

\* start_task has returned True for a task that is recorded in the history
C27_CompletedTaskStartedAgain ==
    /\ last.op = "start_task"
    /\ last.returned
    /\ \E i \in 1..Len(controller.task_history) : controller.task_history[i] = last.arg
    /\ controller.current_task = last.arg
    /\ project.tasks[last.arg].status = IN_PROGRESS

(***************************************************************************)
(* LLMTaskController                                                       *)
(***************************************************************************)
\* the longest TODO list the model follows
MaxTasks == 4

\* one entry of the TODO list, as far as the operations read it
TodoTask(id, priority, status) == [ id |-> id, priority |-> priority, status |-> status ]

\* load_todo without a TODO.yaml
DefaultTodo == << TodoTask(1, "high", "pending"), TodoTask(2, "high", "pending") >>

\* priority_order.get(x.get('priority', 'low'), 2)
PriorityOrder(priority) ==
    CASE priority = "high" -> 0
      [] priority = "medium" -> 1
      [] OTHER -> 2

\* next((t for t in self.todo if t['id'] == task_id), None), as an index of
\* the list; 0 for None
FindTask(todo, task_id) ==
    IF \E i \in 1..Len(todo) : todo[i].id = task_id
    THEN CHOOSE i \in 1..Len(todo) :
            /\ todo[i].id = task_id
            /\ \A j \in 1..(i - 1) : todo[j].id # task_id
    ELSE 0

\* get_current_task, as an index of the list; 0 for None. The sort is stable:
\* pending[0] is the first pending task of the best priority.
get_current_task(l) ==
    IF l.state.current_task # NoneInt /\ l.state.current_task # 0
    THEN FindTask(l.todo, l.state.current_task)
    ELSE LET pending == { i \in 1..Len(l.todo) : l.todo[i].status = "pending" }
         IN  IF pending = {} THEN 0
             ELSE CHOOSE i \in pending :
                     \A j \in pending :
                        \/ PriorityOrder(l.todo[i].priority) < PriorityOrder(l.todo[j].priority)
                        \/ /\ PriorityOrder(l.todo[i].priority) = PriorityOrder(l.todo[j].priority)
                           /\ i <= j

\* an LLMTaskController operation returns; save_state and save_todo have
\* written what memory holds
LLMReturn(op, task_id, returned) ==
    /\ last' = [ op |-> op, arg |-> task_id, returned |-> returned, before |-> llm ]
    /\ UNCHANGED << project, controller >>
    /\ UNCHANGED scanVars

\* controller.start_task(task_id)
LLMTaskController_start_task(task_id) ==
    LET t == FindTask(llm.todo, task_id)
    IN  /\ pc = "idle"
        /\ IF t = 0
           THEN LLMReturn("start_task", task_id, FALSE) /\ UNCHANGED llm
           ELSE IF llm.todo[t].status = "completed"
           THEN LLMReturn("start_task", task_id, FALSE) /\ UNCHANGED llm
           ELSE /\ LLMReturn("start_task", task_id, TRUE)
                /\ llm' = [ llm EXCEPT !.state.current_task = task_id,
                                       !.todo[t].status = "in_progress" ]

\* controller.complete_task()
LLMTaskController_complete_task ==
    LET t == get_current_task(llm)
    IN  /\ pc = "idle"
        /\ IF t = 0
           THEN LLMReturn("complete_task", NoneInt, FALSE) /\ UNCHANGED llm
           ELSE /\ LLMReturn("complete_task", llm.todo[t].id, TRUE)
                /\ llm' = [ llm EXCEPT !.todo[t].status = "completed",
                                       !.state.current_task = NoneInt ]

\* main(): the add_task command
AddTaskCommand(priority) ==
    LET new_id == IF llm.todo = << >> THEN 1
                  ELSE 1 + CHOOSE m \in { llm.todo[i].id : i \in 1..Len(llm.todo) } :
                               \A i \in 1..Len(llm.todo) : llm.todo[i].id <= m
    IN  /\ pc = "idle"
        /\ Len(llm.todo) < MaxTasks
        /\ LLMReturn("add_task", new_id, TRUE)
        /\ llm' = [ llm EXCEPT !.todo = Append(@, TodoTask(new_id, priority, "pending")) ]

\* LLMTaskController() in a directory without .llmstate.json, and without a
\* TODO.yaml or with one that holds no task
LLMInit ==
    /\ probe = Missing /\ config = EmptyConfig
    /\ issues = << >> /\ pc = "idle" /\ stack = << >> /\ results = EmptyResults
    /\ dispatched = << >> /\ entered = {} /\ failed = {} /\ arg = ""
    /\ ret = NoReturn /\ memo = NoMemo
    /\ project = [ tasks |-> NoTasks, tasks_dir |-> NoTasks ]
    /\ controller = [ current_task |-> NoTask, task_history |-> << >> ]
    /\ llm \in { [ todo |-> todo, state |-> [ current_task |-> NoneInt ] ] :
                 todo \in { DefaultTodo, << >> } }
    /\ last = [ op |-> "none", arg |-> NoneInt, returned |-> FALSE, before |-> llm ]

LLMNext ==
    \/ \E task_id \in 1..(MaxTasks + 1) : LLMTaskController_start_task(task_id)
    \/ LLMTaskController_complete_task
    \/ \E priority \in { "high", "medium", "low" } : AddTaskCommand(priority)

LLMSpec == LLMInit /\ [][LLMNext]_vars

\* the indexes of the TODO list's tasks with the status in_progress
InProgress(todo) == { i \in 1..Len(todo) : todo[i].status = "in_progress" }

\* C28: at most one task of the TODO list has the status in_progress, and
\* when state['current_task'] is set it is the id of that task.
C28_AtMostOneInProgress ==
    /\ Cardinality(InProgress(llm.todo)) <= 1
    /\ llm.state.current_task # NoneInt =>
          \E i \in InProgress(llm.todo) : llm.todo[i].id = llm.state.current_task

\* start_task has returned True while another task was in progress
C28_SecondTaskStarted ==
    /\ last.op = "start_task"
    /\ last.returned
    /\ \E i \in InProgress(last.before.todo) : last.before.todo[i].id # last.arg
    /\ Cardinality(InProgress(llm.todo)) = 2

\* C29: when complete_task is called while state['current_task'] is None it
\* returns False and changes no task's status; a task becomes completed only
\* from in_progress; and a completed task stays completed.
C29_CompletesOnlyStartedTask ==
    last.op # "none" =>
        /\ (last.op = "complete_task" /\ last.before.state.current_task = NoneInt) =>
              /\ ~last.returned
              /\ \A i \in 1..Len(last.before.todo) :
                    llm.todo[i].status = last.before.todo[i].status
        /\ \A i \in 1..Len(last.before.todo) :
              /\ (llm.todo[i].status = "completed"
                    /\ last.before.todo[i].status # "completed") =>
                       last.before.todo[i].status = "in_progress"
              /\ last.before.todo[i].status = "completed" =>
                    llm.todo[i].status = "completed"

\* complete_task has returned True for a pending task while no task was
\* started
C29_PendingTaskCompleted ==
    /\ last.op = "complete_task"
    /\ last.returned
    /\ last.before.state.current_task = NoneInt
    /\ \E i \in 1..Len(last.before.todo) :
          /\ last.before.todo[i].id = last.arg
          /\ last.before.todo[i].status = "pending"
          /\ llm.todo[i].status = "completed"

\* C30: whenever add_task, update_task or delete_task has returned False, the
\* tasks mapping in memory is what it was before the call; and the ids in
\* memory are the ids whose task file was written in full and not removed.
C30_FalseLeavesTasksUnchanged ==
    /\ (last.op \in { "add_task", "update_task", "delete_task" } /\ ~last.returned) =>
           project.tasks = last.before
    /\ DOMAIN project.tasks = last.persisted

\* add_task has returned False for an id that was not in memory, because the
\* task file could not be opened
C30_AddTaskWriteFailed ==
    /\ last.op = "add_task"
    /\ ~last.returned
    /\ last.arg \notin DOMAIN last.before
    /\ last.arg \notin DOMAIN project.tasks_dir

====
